---- MODULE Spec2Model ----
(***************************************************************************)
(* Kaleido Stitch: the 35x35 cross-stitch chart generator of kaleido.py    *)
(* (octant folding, the six closed-form designs, threshold quantization,   *)
(* the chart / preview renderers and generate_bundle) and the HTTP form    *)
(* handler of app.py.                                                      *)
(*                                                                         *)
(* Real-valued field values are carried in fixed point, in millionths: a  *)
(* float v is represented by floor(v * 10^6) and a threshold t             *)
(* by t * 10^6, so that "v < t" is decided exactly as the float comparison *)
(* decides it.  The trigonometric fields are tabulated per seed and per    *)
(* folded coordinate from the formulas of the design functions.            *)
(***************************************************************************)
EXTENDS Integers, Sequences, FiniteSets, TLC

\* ---------------------------------------------------------------- bounds
\* Direct design calls use the seeds 0..MaxSeed.
MaxSeed == 3
\* generate_bundle is called with the seeds 0..MaxBundleSeed,
MaxBundleSeed == 1
\* and with the cell sizes -1..MaxCell and the default cell size.
MaxCell == 7
\* fold_d8 is applied to offsets up to MaxOver beyond the grid's half-width.
MaxOver == 1
\* quantize is applied to threshold lists of up to MaxThr entries drawn
\* from -MaxQ..MaxQ.
MaxThr == 3
MaxQ == 2
\* make_pattern_octant is probed with the cell functions
\* (a*fx + b*fy + c) % 7, a, b, c in 0..MaxCoef.
MaxCoef == 4
\* render_chart and render_preview are called directly with grids of up to
\* MaxDim rows and columns, cell sizes 1..MaxRCell and gridline widths
\* 0..MaxGridline; the grids are (a + x + 3*y) % 7, a in 0..MaxShift.
MaxDim == 2
MaxRCell == 2
MaxGridline == 1
MaxShift == 2

\* The HTTP form handler is called with the seeds 0..MaxApiSeed, colour
\* counts from MaxNcOver below 3 to MaxNcOver above 7, smoothing amounts
\* -1..MaxSmooth and line-bias amounts -1..MaxLines.
MaxApiSeed == 1
MaxNcOver == 1
MaxSmooth == 1
MaxLines == 1

\* ------------------------------------------------------- program constants
N == 35
CX == N \div 2
CY == N \div 2
\* _edge_mask's default maxd
MaskMaxD == 16
\* generate_bundle's default cell size
DefaultCell == 22

Abs(v) == IF v < 0 THEN -v ELSE v
Max2(a, b) == IF a >= b THEN a ELSE b
Min2(a, b) == IF a <= b THEN a ELSE b
\* int(math.sqrt(n)) for an integer n >= 0
ISqrt(n) == CHOOSE k \in 0..(n + 1) : k * k <= n /\ (k + 1) * (k + 1) > n

Seeds == 0..MaxSeed
BundleSeeds == 0..MaxBundleSeed
Octant == 0..CX

\* ------------------------------------------------------------ fold engine
\* A fold that takes absolute values but never swaps the components.
fold_d8_noswap(dx, dy) == <<Abs(dx), Abs(dy)>>

fold_d8(dx, dy) ==
  LET ax == Abs(dx)
      ay == Abs(dy)
  IN  IF ay > ax THEN <<ay, ax>> ELSE <<ax, ay>>

\* func is a function on Octant \X Octant; the result is indexed [y][x].
\* A grid builder that takes absolute values of the offsets but does not
\* fold them onto the octant.
make_pattern_octant_unfolded(func) ==
  [y \in 0..(N - 1) |->
     [x \in 0..(N - 1) |-> func[Abs(x - CX), Abs(y - CY)]]]

make_pattern_octant(func) ==
  [y \in 0..(N - 1) |->
     [x \in 0..(N - 1) |->
        LET f == fold_d8(x - CX, y - CY)
        IN  func[f[1], f[2]]]]

\* ---------------------------------------------------------------- quantizer
\* A quantizer that puts a value equal to a threshold in the lower bucket.
quantize_strict(val, thresholds) ==
  IF \E i \in 1..Len(thresholds) : val <= thresholds[i]
  THEN (CHOOSE i \in 1..Len(thresholds) :
          /\ val <= thresholds[i]
          /\ \A j \in 1..(i - 1) : ~(val <= thresholds[j])) - 1
  ELSE Len(thresholds)

\* thresholds is a sequence; the first index i (0-based) with val < t, else
\* the length.
quantize(val, thresholds) ==
  IF \E i \in 1..Len(thresholds) : val < thresholds[i]
  THEN (CHOOSE i \in 1..Len(thresholds) :
          /\ val < thresholds[i]
          /\ \A j \in 1..(i - 1) : ~(val < thresholds[j])) - 1
  ELSE Len(thresholds)

_edge_mask(fx, fy, maxd) == Max2(fx, fy) <= maxd

\* ------------------------------------------------------------ field tables
\* XField[seed + 1][fx + 1][fy + 1], fx, fy in 0..16, in millionths.
RingsSpokesField ==
  <<
    \* seed 0
    <<
      <<550000, -111947, -32949, -279965, -680853, -940564, -851621, -449159, 1092, 179259, -65434, -598653, -1077093, -1172244, -794581, -165817, 315062>>,
      <<1187238, 772682, 850610, -10864, -743296, -1117364, -1007055, -518167, 19148, 237285, -33922, -647918, -1225554, -1395207, -1035318, -359903, 212326>>,
      <<1426010, 226398, 610931, 459493, -234379, -711975, -674817, -220465, 295919, 487152, 174424, -497194, -1145739, -1391738, -1099133, -462943, 113647>>,
      <<1121757, 266499, -236940, -112389, -209924, -340872, -190620, 236011, 664155, 771722, 418621, -249573, -884106, -1148664, -929874, -406706, 66157>>,
      <<473540, -15247, -698816, -733639, -480518, -179211, 199180, 625801, 928623, 916193, 539170, -43997, -546372, -725929, -537711, -161498, 116410>>,
      <<-107269, -353047, -857423, -926966, -558502, -26875, 481468, 851418, 983141, 827410, 447857, 22828, -239914, -227630, -212, 240568, 279923>>,
      <<-262176, -401968, -702018, -712293, -337478, 209254, 673576, 893033, 821252, 526779, 171574, -52884, -22439, 240158, 560948, 705448, 521565>>,
      <<88370, -60099, -278838, -288594, -8446, 401025, 700809, 733061, 493134, 121512, -165479, -183359, 116794, 603747, 1017313, 1102402, 758766>>,
      <<703057, 485804, 211692, 79133, 159621, 347390, 457312, 362197, 76186, -248844, -403615, -239289, 235488, 834104, 1270646, 1306664, 889687>>,
      <<1184674, 907554, 513254, 179573, 5219, -40485, -67116, -165031, -331598, -464503, -423151, -123253, 389728, 935817, 1277555, 1244431, 836582>>,
      <<1239728, 965886, 486312, -23473, -418554, -642242, -719085, -702802, -623131, -467151, -203719, 168590, 585609, 924158, 1056189, 923385, 586016>>,
      <<861578, 669378, 209859, -359378, -862622, -1170376, -1229853, -1058493, -717387, -285199, 156380, 528012, 759654, 807333, 676526, 436383, 206416>>,
      <<320597, 259053, -68786, -552363, -1026001, -1328609, -1356388, -1092046, -605735, -31449, 473170, 773959, 803270, 586475, 240024, -65175, -168912>>,
      <<-25291, 35385, -105407, -403806, -747307, -994900, -1030053, -807214, -374635, 136470, 555741, 737676, 623216, 273183, -145310, -421302, -391050>>,
      <<31365, 150489, 167180, 63293, -124217, -314547, -416085, -368552, -175877, 87067, 301231, 356217, 207575, -89348, -390398, -520897, -359598>>,
      <<419827, 509034, 586273, 600907, 524079, 364136, 163694, -20993, -148179, -211176, -238936, -274490, -341927, -421175, -448291, -346428, -74621>>,
      <<854125, 843798, 868719, 886915, 840427, 684008, 408409, 47734, -331743, -654939, -862011, -922731, -837416, -628456, -330760, 12533, 349363>>
    >>,
    \* seed 1
    <<
      <<550000, -139779, -4094, 62794, 33141, -102675, -323481, -572487, -767715, -828400, -709152, -427128, -67437, 240448, 369847, 250183, -96462>>,
      <<1110461, 742709, 713223, 98516, -290565, -557710, -745650, -859118, -893183, -842894, -710124, -512331, -289491, -102272, -17122, -80863, -294840>>,
      <<1452764, 278513, 902311, 884573, 273205, -322300, -707354, -855293, -809666, -648122, -454083, -293794, -205048, -198763, -268066, -396972, -563394>>,
      <<1445633, 624365, 335720, 628447, 450405, -42159, -479124, -667229, -587249, -334134, -51691, 129428, 136744, -27638, -300550, -591072, -817251>>,
      <<1096137, 642222, 45115, 55445, 105026, -88218, -358651, -479414, -351310, -25780, 345851, 591006, 590966, 326642, -119046, -599162, -962691>>,
      <<545079, 308276, -233006, -416929, -348545, -316462, -357655, -340962, -152082, 209987, 630646, 937840, 983394, 711443, 186449, -429406, -938876>>,
      <<8928, -159221, -575365, -781231, -700884, -516842, -352975, -190642, 45725, 388169, 779679, 1091350, 1182232, 969760, 477741, -160483, -746676>>,
      <<-307214, -512399, -860472, -1032086, -911681, -608065, -273823, 20005, 285791, 558106, 835787, 1061295, 1142458, 1001551, 625519, 91086, -450390>>,
      <<-289796, -570138, -927309, -1103717, -973260, -599752, -142615, 261038, 552013, 738577, 853769, 915072, 907861, 797765, 562078, 221025, -150524>>,
      <<41938, -281835, -686287, -932732, -873279, -524348, -28082, 441586, 759850, 885791, 851958, 727345, 576831, 435741, 307897, 183105, 60632>>,
      <<548817, 258111, -173173, -522794, -615284, -406545, 11049, 468210, 800061, 910302, 797198, 539172, 252428, 41256, -38426, 10252, 140334>>,
      <<1031374, 851858, 457507, 29456, -246171, -264977, -43632, 298830, 600618, 727914, 627952, 345727, 744, -264473, -342016, -199038, 114061>>,
      <<1310188, 1279550, 991595, 557030, 137878, -125152, -170305, -34155, 171767, 314473, 299859, 114928, -165448, -409954, -487290, -323821, 61999>>,
      <<1293822, 1387669, 1241545, 883188, 415518, -25751, -326486, -437160, -387077, -264593, -172240, -176428, -274263, -393058, -423879, -274994, 78605>>,
      <<1008097, 1148716, 1123869, 893792, 485989, -9662, -472192, -794155, -920618, -865705, -699390, -510613, -363852, -269757, -184257, -37118, 223437>>,
      <<577675, 668949, 695373, 589544, 316052, -102444, -583689, -1011060, -1275514, -1316111, -1141083, -820092, -451546, -120518, 132970, 320739, 486143>>,
      <<170793, 142639, 132628, 93690, -35118, -290009, -652929, -1046491, -1357551, -1479974, -1357766, -1009091, -520202, -12052, 405303, 670191, 782812>>
    >>,
    \* seed 2
    <<
      <<550000, 287064, 366382, 53475, -417175, -678297, -509498, -12423, 453355, 531635, 137608, -467083, -853331, -732430, -170303, 450142, 695963>>,
      <<1156804, 964149, 628110, -304933, -976749, -1240829, -988845, -386086, 166724, 291741, -98813, -731467, -1156691, -1063624, -500868, 155518, 465608>>,
      <<1346208, 151275, 735031, 355758, -496576, -962857, -832298, -311924, 168958, 234210, -192946, -839800, -1273633, -1203436, -682741, -70084, 224334>>,
      <<993863, 50070, -270081, -26064, -178980, -360319, -226342, 145863, 428222, 333400, -161676, -789454, -1174381, -1095624, -642984, -153278, 28488>>,
      <<352798, -237188, -863322, -677295, -275437, 64511, 394054, 672417, 730053, 446432, -100570, -645472, -901290, -759798, -375423, -63033, -75796>>,
      <<-129569, -465562, -985086, -890318, -315598, 328880, 807639, 1005095, 864876, 434658, -99981, -482342, -533108, -277372, 54311, 171390, -74152>>,
      <<-128788, -334254, -687146, -632526, -121697, 517752, 958180, 1031370, 744445, 258444, -174607, -330284, -141988, 241504, 529002, 465106, 6454>>,
      <<332516, 149933, -138963, -175714, 125919, 549673, 809770, 749498, 409680, -8493, -253175, -162657, 229352, 691654, 916381, 704929, 106791>>,
      <<911594, 690556, 348842, 136472, 153454, 290154, 356218, 240776, -10999, -229189, -227736, 70038, 560611, 994471, 1109229, 790716, 161494>>,
      <<1198958, 938820, 499873, 89289, -162015, -261417, -296743, -334016, -356483, -280432, -29594, 383839, 828815, 1105734, 1057491, 676173, 131999>>,
      <<1011463, 759891, 270587, -266232, -682476, -897823, -914458, -769953, -497756, -123321, 310674, 720357, 989021, 1016400, 784375, 393140, 30779>>,
      <<513619, 332227, -108076, -641509, -1083319, -1298069, -1231274, -905854, -402329, 162129, 654219, 951730, 980900, 753717, 382145, 47340, -77221>>,
      <<84278, 10064, -293915, -707884, -1067872, -1227572, -1107849, -720610, -164991, 401151, 809222, 937808, 763648, 383281, -13188, -217334, -101337>>,
      <<32416, 55064, -87770, -336751, -582182, -707454, -635977, -364643, 28541, 408039, 631292, 610364, 359712, 4348, -264698, -276584, 28037>>,
      <<373361, 439500, 410177, 290081, 122664, -27719, -104308, -85251, 3054, 95328, 119101, 36514, -124700, -271528, -284935, -84585, 313261>>,
      <<828232, 868931, 864136, 789625, 637278, 420425, 169813, -77661, -291299, -452941, -553706, -584161, -526791, -360122, -76911, 292498, 669015>>,
      <<1041958, 1007668, 946891, 840317, 660987, 391589, 39831, -354923, -726838, -998948, -1103620, -1002240, -699416, -248458, 254445, 689375, 944805>>
    >>,
    \* seed 3
    <<
      <<550000, -296492, -137442, -115090, -240364, -474438, -739204, -941600, -1005180, -898797, -651735, -347984, -99227, -4407, -110192, -388223, -740154>>,
      <<1078968, 447272, 1036382, 649470, 181623, -238408, -551395, -710378, -701210, -553223, -332948, -124932, -6625, -24980, -181594, -431050, -693852>>,
      <<1390884, 285316, 574166, 823906, 515657, 57321, -289314, -416472, -326004, -98091, 148101, 299891, 289564, 113739, -171152, -473225, -699028>>,
      <<1358474, 640742, 111441, 225413, 203078, -27446, -236133, -252085, -44005, 298409, 621640, 779216, 692203, 378653, -56821, -466732, -718609>>,
      <<996567, 596286, -82543, -316365, -337454, -376534, -387492, -247663, 86326, 538643, 951311, 1158755, 1063321, 680487, 136082, -382316, -699073>>,
      <<455279, 239420, -316113, -669432, -748360, -692338, -551445, -286542, 125569, 626852, 1082023, 1333698, 1275150, 905183, 339491, -228046, -599115>>,
      <<-42793, -190652, -589436, -889094, -947091, -816846, -573111, -240203, 175080, 632048, 1038514, 1276432, 1254074, 956533, 467784, -49615, -412120>>,
      <<-294859, -456923, -758285, -966346, -954313, -745696, -427130, -69180, 290023, 622433, 887312, 1029718, 1001729, 793326, 453895, 89028, -171242>>,
      <<-201114, -410134, -688493, -855279, -803269, -549377, -191497, 162790, 441553, 616827, 690382, 675645, 588044, 446552, 281068, 136411, 65554>>,
      <<195597, -41986, -342712, -542232, -532468, -314510, 17688, 335719, 536314, 576088, 475328, 298070, 121770, 9831, -4242, 81063, 243085>>,
      <<729445, 515348, 193064, -85618, -199276, -114786, 105132, 340211, 471422, 432281, 233536, -44915, -288476, -393412, -305558, -38268, 335305>>,
      <<1181560, 1045868, 740503, 388241, 116945, 845, 31970, 131804, 193902, 136559, -57294, -329222, -567549, -653450, -511886, -146383, 356800>>,
      <<1370480, 1340483, 1101771, 727696, 330335, 11833, -176040, -246676, -262950, -299568, -401011, -554385, -690170, -711774, -541834, -164952, 352983>>,
      <<1225406, 1284593, 1143399, 817012, 377364, -74081, -444230, -680245, -782006, -790743, -760088, -723924, -677023, -578632, -378198, -51170, 373169>>,
      <<812494, 906189, 855599, 628915, 245732, -223580, -679342, -1025890, -1202735, -1200565, -1056107, -829514, -575895, -324969, -78251, 176055, 439746>>,
      <<304551, 364524, 361042, 243873, -11735, -383919, -802220, -1167029, -1383041, -1392838, -1196475, -849139, -438674, -53461, 245274, 435735, 529468>>,
      <<-91946, -115735, -132007, -175126, -288267, -493930, -771932, -1056699, -1256905, -1289981, -1116794, -761126, -304989, 138775, 465379, 612655, 577886>>
    >>,
    \* seed 4
    <<
      <<550000, 440799, 598157, 621830, 500322, 270577, 8423, -194618, -262080, -161149, 81484, 384130, 635978, 737005, 637886, 363899, 11287>>,
      <<1081979, 51595, 784394, 883482, 682386, 401313, 164013, 46822, 77777, 235536, 459376, 669255, 790618, 777333, 626623, 381521, 119240>>,
      <<1395767, 463411, 179143, 325231, 263896, 79473, -50685, -20790, 180522, 485839, 786270, 977193, 996885, 845750, 581801, 296749, 83073>>,
      <<1363402, 838740, 122748, -168218, -324377, -460150, -487797, -315501, 58471, 537565, 970049, 1214053, 1195702, 937488, 547278, 174511, -47403>>,
      <<999746, 745088, 99340, -414554, -730513, -899246, -888510, -641614, -167065, 429655, 976213, 1301290, 1306036, 1007059, 532383, 72058, -196014>>,
      <<455627, 346903, -103014, -575249, -913869, -1086907, -1065510, -814166, -342439, 259272, 831962, 1202869, 1256129, 985914, 506558, 12861, -294624>>,
      <<-45270, -113585, -393614, -708390, -934565, -1028070, -970666, -746020, -360691, 127217, 604723, 935487, 1013636, 814456, 416258, -20406, -311187>>,
      <<-299140, -401940, -592399, -761112, -834419, -798717, -671020, -468788, -206542, 89105, 367320, 558988, 602016, 474344, 216597, -70627, -258750>>,
      <<-205610, -370385, -552042, -655279, -629807, -490451, -294440, -103325, 43110, 131655, 165569, 151882, 95972, 6038, -97496, -176658, -182128>>,
      <<192417, -11469, -230127, -358482, -338405, -185293, 25124, 196838, 256787, 181910, 2156, -217103, -402483, -497522, -476460, -344699, -129892>>,
      <<728519, 541565, 288906, 80889, -1541, 54846, 191437, 307431, 307374, 144770, -156268, -509053, -797446, -919858, -826486, -535944, -126408>>,
      <<1182987, 1071083, 826058, 540897, 311592, 192230, 171403, 180495, 129379, -47006, -352180, -718325, -1028330, -1161246, -1042553, -678286, -158473>>,
      <<1373604, 1365967, 1181273, 870397, 520153, 214296, -2224, -138939, -248270, -392269, -603577, -859614, -1083602, -1174023, -1050835, -698207, -183719>>,
      <<1229144, 1309712, 1218162, 951749, 561710, 133101, -249084, -531588, -707820, -809670, -881076, -947172, -995317, -978718, -842272, -558716, -156832>>,
      <<815742, 929081, 924358, 754924, 422759, -16668, -472307, -850091, -1085567, -1162357, -1109223, -978765, -819406, -655029, -482170, -285216, -60249>>,
      <<306483, 383109, 421199, 358303, 154405, -182457, -590901, -974395, -1235449, -1311102, -1194559, -934339, -612439, -312236, -90595, 34413, 77103>>,
      <<-91733, -102769, -82712, -75488, -137259, -303316, -562951, -855072, -1087824, -1174422, -1069686, -791207, -415654, -51647, 199397, 278163, 184408>>
    >>
  >>

PetalVaultField ==
  <<
    \* seed 0
    <<
      <<999999, 1217139, 449635, -324810, -368213, -534403, -1168583, -1173302, -314458, 212289, 198062, 627949, 1294365, 1056368, 232996, -36498, -92309>>,
      <<1217139, 684118, -197319, 90525, 41076, -738142, -1027629, -471428, -169538, -272502, 219689, 1072474, 1086170, 506258, 403438, 391831, -378770>>,
      <<449635, -197320, 218354, 128332, -410812, -574902, -133561, -96566, -477867, -169007, 650150, 778135, 413109, 552517, 734486, 51455, -761796>>,
      <<-324810, 90525, 128333, -758648, -972479, -295930, -79955, -468542, -297154, 370006, 426146, 110365, 405382, 794794, 300801, -403305, -371696>>,
      <<-368213, 41076, -410812, -972478, -760947, -602655, -794572, -445325, 270667, 280444, -91267, 207189, 682042, 332144, -220809, -86879, 13260>>,
      <<-534403, -738142, -574902, -295930, -602655, -1124651, -769938, 114635, 264134, -65847, 207313, 653792, 318499, -169165, 54400, 226145, -355911>>,
      <<-1168583, -1027630, -133561, -79955, -794571, -769938, -8626, 228203, 42814, 399796, 844396, 459817, -73081, 139489, 333027, -219233, -602041>>,
      <<-1173302, -471428, -96566, -468542, -445325, 114635, 228203, 88655, 577701, 1125653, 759432, 171413, 300981, 426213, -160951, -552229, -161015>>,
      <<-314458, -169538, -477867, -297154, 270667, 264134, 42814, 577700, 1257057, 1011401, 465777, 551529, 582240, -103340, -564482, -206355, -35305>>,
      <<212289, -272502, -169007, 370006, 280444, -65847, 399795, 1125653, 1011401, 599491, 751607, 760403, -10669, -575562, -299703, -170272, -622805>>,
      <<198062, 219689, 650150, 426146, -91267, 207313, 844395, 759431, 465776, 751607, 841205, 69219, -563405, -381698, -331197, -821984, -814578>>,
      <<627949, 1072474, 778136, 110366, 207189, 653792, 459817, 171412, 551529, 760403, 69219, -552932, -423515, -453752, -1013814, -1036485, -322298>>,
      <<1294365, 1086170, 413110, 405382, 682043, 318499, -73081, 300981, 582240, -10669, -563405, -423515, -498481, -1129490, -1212843, -521811, -213427>>,
      <<1056368, 506258, 552517, 794795, 332144, -169165, 139489, 426213, -103340, -575562, -381698, -453752, -1129490, -1279776, -645030, -356943, -527300>>,
      <<232996, 403438, 734486, 300801, -220809, 54400, 333027, -160951, -564482, -299703, -331196, -1013813, -1212843, -645030, -412341, -603671, -169714>>,
      <<-36498, 391831, 51455, -403305, -86879, 226145, -219233, -552229, -206355, -170272, -821983, -1036485, -521811, -356943, -603670, -192393, 671203>>,
      <<-92309, -378770, -761796, -371696, 13260, -355911, -602041, -161015, -35305, -622805, -814578, -322298, -213427, -527300, -169714, 671203, 831902>>
    >>,
    \* seed 1
    <<
      <<999999, 1276508, 633978, 105526, 246398, -38145, -894203, -1075593, -679866, -854830, -1153136, -556687, 160072, 109888, 206434, 973976, 1250543>>,
      <<1276508, 766145, -84422, 314444, 279056, -479743, -686197, -396629, -722138, -1183164, -734065, -127557, -236407, -140719, 681498, 1058218, 685974>>,
      <<633978, -84423, 666802, 406439, -297917, -333264, 54421, -288496, -860375, -575307, -145321, -408969, -421662, 352444, 744227, 443170, 607202>>,
      <<105526, 314445, 406439, -285462, -445737, 8764, -176156, -634045, -331615, 26829, -362722, -515362, 139774, 458047, 141004, 346541, 976000>>,
      <<246398, 279056, -297917, -445737, -220004, -536376, -933218, -481611, 3253, -334646, -511359, 70655, 301841, -84845, 89907, 736587, 648584>>,
      <<-38145, -479743, -333264, 8764, -536375, -1231939, -913834, -383903, -593826, -650856, -3769, 233022, -187749, -58450, 557055, 468901, 47234>>,
      <<-894203, -686198, 54421, -176156, -933218, -913834, -649570, -960599, -973893, -218287, 121033, -239399, -95948, 503230, 390819, -43095, 269513>>,
      <<-1075593, -396630, -288497, -634045, -481611, -383903, -960598, -1159347, -451473, -56789, -322966, -97987, 545545, 440096, -10054, 281606, 640767>>,
      <<-679866, -722138, -860376, -331615, 3253, -593825, -973893, -451473, -151236, -410298, -116505, 607937, 560621, 132635, 415010, 747538, 261653>>,
      <<-854830, -1183164, -575307, 26828, -334646, -650856, -218287, -56789, -410298, -131278, 642325, 669570, 305449, 620310, 950433, 436116, 26679>>,
      <<-1153136, -734065, -145321, -362722, -511359, -3769, 121033, -322966, -116505, 642325, 711435, 418680, 801791, 1173484, 665093, 230048, 531023>>,
      <<-556687, -127557, -408970, -515362, 70655, 233022, -239399, -97987, 607937, 669570, 418680, 873456, 1318236, 860436, 441224, 723547, 644761>>,
      <<160072, -236407, -421662, 139774, 301841, -187749, -95948, 545545, 560621, 305449, 801791, 1318236, 937101, 576211, 884341, 796157, 19357>>,
      <<109888, -140719, 352444, 458047, -84845, -58450, 503230, 440096, 132635, 620310, 1173484, 860436, 576211, 947116, 892621, 115514, -155866>>,
      <<206434, 681498, 744228, 141004, 89907, 557055, 390819, -10054, 415009, 950433, 665093, 441224, 884341, 892621, 153359, -111519, 142151>>,
      <<973976, 1058218, 443170, 346541, 736587, 468901, -43095, 281606, 747538, 436116, 230048, 723546, 796157, 115514, -111519, 152051, -244740>>,
      <<1250543, 685974, 607202, 976000, 648584, 47234, 269513, 640767, 261653, 26679, 531023, 644761, 19357, -155866, 142151, -244740, -957485>>
    >>,
    \* seed 2
    <<
      <<999999, 1200255, 334256, -342907, -310689, -714448, -1319015, -862535, -23485, 84745, 322730, 1145456, 1220599, 435104, 146664, 83708, -729741>>,
      <<1200255, 586175, -164886, 199268, -125214, -925029, -792692, -267613, -360555, -157965, 793686, 1112563, 605338, 542955, 585576, -273602, -1042706>>,
      <<334256, -164886, 289038, -48158, -591101, -358470, 9041, -377751, -448952, 360306, 710101, 382482, 576484, 861338, 149919, -612017, -501072>>,
      <<-342907, 199267, -48157, -987988, -787766, -167223, -386366, -489247, 171794, 388177, 34653, 334493, 818905, 326070, -277501, -123826, -271040>>,
      <<-310689, -125215, -591100, -787766, -646824, -899348, -789770, 40590, 288250, -116870, 144189, 665735, 291499, -154603, 131512, 36255, -709226>>,
      <<-714448, -925029, -358470, -167223, -899348, -1095460, -226101, 201067, -78098, 203914, 690117, 293917, -122327, 238354, 222825, -484544, -547631>>,
      <<-1319015, -792692, 9041, -386366, -789770, -226101, 123032, -38633, 386802, 933168, 508357, 27469, 341215, 318462, -369575, -419189, 19791>>,
      <<-862535, -267613, -377751, -489247, 40591, 201067, -38633, 474538, 1165720, 826628, 332281, 563577, 445065, -310790, -390274, 40646, -248234>>,
      <<-23485, -360555, -448952, 171794, 288250, -78098, 386802, 1165720, 978524, 594509, 838003, 644422, -223617, -401439, -27965, -334673, -693017>>,
      <<84745, -157965, 360306, 388177, -116870, 203914, 933167, 826628, 594509, 965268, 810599, -110777, -393119, -122402, -493040, -866539, -309843>>,
      <<322730, 793686, 710101, 34653, 144189, 690117, 508357, 332281, 838003, 810599, -56216, -370567, -187121, -650527, -1081478, -530209, -81713>>,
      <<1145456, 1112563, 382482, 334493, 665735, 293917, 27469, 563577, 644422, -110777, -370567, -207866, -743922, -1255137, -751585, -298787, -528104>>,
      <<1220599, 605339, 576484, 818905, 291500, -122327, 341215, 445065, -223617, -393119, -187121, -743922, -1321050, -889666, -478048, -698110, -372597>>,
      <<435104, 542955, 861338, 326070, -154603, 238355, 318462, -310790, -401439, -122402, -650527, -1255137, -889666, -547533, -806986, -472881, 442351>>,
      <<146664, 585576, 149919, -277501, 131512, 222825, -369575, -390274, -27965, -493039, -1081477, -751585, -478047, -806986, -513084, 406868, 583806>>,
      <<83708, -273602, -612017, -123826, 36255, -484544, -419189, 40646, -334673, -866539, -530209, -298787, -698109, -472881, 406868, 585105, 411872>>,
      <<-729741, -1042706, -501072, -271041, -709226, -547632, 19791, -248234, -693017, -309842, -81713, -528104, -372597, 442351, 583806, 411872, 966514>>
    >>,
    \* seed 3
    <<
      <<999999, 1271652, 731092, 22158, -81214, -63709, -635708, -1269782, -1120586, -583536, -521772, -641753, -118578, 734295, 957111, 673796, 769288>>,
      <<1271652, 876981, -123291, 47801, 306050, -193402, -885488, -875952, -516309, -631563, -896892, -464847, 363231, 628498, 445144, 679665, 1208844>>,
      <<731092, -123291, 369931, 429999, 18816, -496203, -408732, -100770, -362500, -818289, -572835, 109891, 294735, 104958, 402339, 1047512, 1084024>>,
      <<22158, 47801, 429999, -23933, -656541, -472999, 6918, -149822, -611998, -463960, 76090, 120525, -170082, 88035, 761228, 884278, 435248>>,
      <<-81214, 306050, 18816, -656540, -748845, -398832, -472947, -772704, -502087, 73963, 77450, -294512, -117091, 508462, 634654, 241602, 227030>>,
      <<-63709, -193403, -496203, -472999, -398831, -796085, -1220645, -885326, -170161, -50057, -369350, -198990, 387733, 476055, 71453, 83968, 568110>>,
      <<-635708, -885489, -408732, 6918, -472946, -1220644, -1150457, -516781, -332530, -534638, -266766, 367275, 456998, 30368, 22999, 508107, 562309>>,
      <<-1269782, -875953, -100770, -149821, -772703, -885326, -516781, -497475, -720047, -377427, 355247, 517314, 118988, 103424, 563644, 596650, 56550>>,
      <<-1120586, -516309, -362500, -611998, -502086, -170160, -332529, -720047, -440154, 327856, 572967, 253221, 281066, 743756, 749967, 172391, -65986>>,
      <<-583536, -631563, -818289, -463960, 73963, -50057, -534637, -377427, 327856, 591411, 343012, 450652, 966774, 985490, 383581, 99132, 393157>>,
      <<-521772, -896892, -572835, 76090, 77450, -369350, -266766, 355247, 572967, 343012, 518854, 1117470, 1198947, 620803, 319334, 566759, 514683>>,
      <<-641753, -464847, 109891, 120525, -294512, -198990, 367275, 517314, 253221, 450652, 1117470, 1284631, 777814, 511854, 752947, 660203, -36593>>,
      <<-118578, 363231, 294735, -170082, -117091, 387733, 456998, 118988, 281066, 966774, 1198947, 777814, 588482, 874801, 786885, 58742, -408890>>,
      <<734295, 628498, 104958, 88035, 508462, 476055, 30368, 103424, 743756, 985489, 620803, 511854, 874801, 837411, 122780, -366837, -199004>>,
      <<957111, 445144, 402339, 761229, 634654, 71453, 22999, 563644, 749967, 383581, 319334, 752947, 786885, 122780, -348895, -196154, -196744>>,
      <<673796, 679665, 1047512, 884278, 241602, 83968, 508107, 596650, 172391, 99132, 566759, 660203, 58742, -366837, -196154, -208509, -821979>>,
      <<769288, 1208844, 1084024, 435248, 227030, 568110, 562309, 56550, -65986, 393157, 514683, -36593, -408890, -199004, -196744, -821979, -1255514>>
    >>,
    \* seed 4
    <<
      <<999999, 1255578, 903432, 159977, -348562, -394213, -389865, -740344, -1216810, -1234964, -656094, 2177, 241545, 211568, 426314, 975237, 1338183>>,
      <<1255578, 1049063, 13696, -220671, -25391, 51997, -355857, -971357, -1166445, -764385, -251582, -103792, -159277, 97065, 745111, 1246433, 1133445>>,
      <<903432, 13695, 102029, 98628, 263675, 32815, -504335, -750445, -494208, -171421, -210118, -411233, -235934, 404841, 968112, 970331, 602828>>,
      <<159977, -220671, 98628, 221946, -126649, -568259, -642639, -281208, 35649, -100003, -443541, -408732, 130778, 654066, 683446, 401666, 348996>>,
      <<-348562, -25391, 263675, -126648, -843264, -1047604, -603947, -124889, -137859, -445094, -450941, 7311, 449707, 430964, 151649, 154241, 535584>>,
      <<-394213, 51996, 32815, -568259, -1047603, -926690, -572637, -521275, -689576, -578719, -67554, 368002, 310475, -6903, -16269, 391648, 702395>>,
      <<-389865, -355857, -504335, -642638, -603946, -572637, -786485, -1036679, -862051, -233832, 299364, 289416, -26331, -57644, 330277, 641729, 445505>>,
      <<-740344, -971358, -750445, -281208, -124889, -521274, -1036679, -1027438, -420210, 187394, 276041, 32850, 30163, 410169, 696877, 479442, 3174>>,
      <<-1216810, -1166445, -494209, 35648, -137859, -689576, -862051, -420210, 124045, 247514, 87145, 163137, 586870, 876434, 632524, 118959, -75090>>,
      <<-1234964, -764385, -171421, -100003, -445094, -578719, -233832, 187394, 247514, 104978, 251947, 755440, 1098689, 867690, 330206, 90389, 285011>>,
      <<-656094, -251582, -210118, -443541, -450941, -67554, 299364, 276041, 87145, 251947, 823197, 1248800, 1080734, 567393, 310997, 459386, 543457>>,
      <<2177, -103792, -411233, -408732, 7311, 368002, 289416, 32850, 163137, 755440, 1248800, 1166229, 724323, 503774, 646265, 690057, 260484>>,
      <<241545, -159277, -235934, 130778, 449707, 310475, -26331, 30163, 586870, 1098688, 1080734, 724323, 580483, 768507, 817545, 357017, -316932>>,
      <<211568, 97065, 404841, 654066, 430964, -6903, -57644, 410169, 876434, 867690, 567393, 503774, 768507, 868366, 421759, -273784, -604122>>,
      <<426314, 745111, 968112, 683446, 151649, -16269, 330277, 696877, 632523, 330205, 310996, 646265, 817545, 421759, -255436, -600473, -475009>>,
      <<975237, 1246433, 970331, 401666, 154241, 391648, 641729, 479442, 118959, 90389, 459385, 690057, 357017, -273784, -600473, -486378, -401439>>,
      <<1338183, 1133445, 602828, 348996, 535584, 702395, 445505, 3174, -75090, 285011, 543457, 260484, -316932, -604122, -475009, -401439, -750691>>
    >>
  >>

StarburstField ==
  <<
    \* seed 0
    <<
      <<1299999, 774545, 100217, 1641, 633844, 1376566, 1459486, 773990, 5760, -67531, 619580, 1359819, 1414201, 767721, 111975, 99442, 678051>>,
      <<1166208, -693727, -137915, -1334145, -890153, 84467, 510577, 132435, -467130, -536394, 69322, 779259, 945256, 521061, 64213, 96977, 550266>>,
      <<587141, 253745, -1299869, -96720, 415087, 356436, 44980, -548389, -1060898, -1052602, -547526, -46350, 10507, -285915, -443600, -153397, 340386>>,
      <<215331, -847223, 294946, -718819, 328461, 1035565, 682095, -100265, -632806, -635886, -360394, -297473, -646008, -1072533, -1057593, -490178, 143237>>,
      <<412584, -676463, 902009, 720126, -100525, 61690, 196460, 74312, 95257, 378233, 556480, 207742, -616904, -1334162, -1351582, -675518, 35994>>,
      <<887801, -136792, 570124, 1522489, 453355, -668645, -935639, -562481, 200089, 1010488, 1355007, 903137, -109406, -975064, -1096619, -530204, 60457>>,
      <<1073104, 21813, -176281, 895784, 683385, -543974, -1298820, -1059282, -128743, 878387, 1369528, 1099424, 349248, -280741, -369906, -32948, 219775>>,
      <<782397, -253945, -1037154, -321527, 288002, -75555, -667618, -743880, -282682, 301563, 616452, 571405, 386187, 348259, 516951, 653538, 469608>>,
      <<402594, -458722, -1447280, -1121572, -126004, 413780, 358182, 108982, -102099, -277625, -407217, -352835, 24273, 651035, 1186065, 1236934, 706998>>,
      <<417414, -139559, -1044194, -1022269, -110534, 789228, 1092078, 788488, 114039, -643617, -1150580, -1099491, -414348, 597955, 1363001, 1419044, 788597>>,
      <<825639, 554268, -150692, -351987, 170096, 866241, 1148268, 830143, 79707, -758916, -1296723, -1245939, -595033, 320614, 985007, 1048772, 600263>>,
      <<1131051, 985319, 438596, 99361, 216148, 516754, 610659, 350145, -139144, -612566, -854275, -768864, -424561, -24132, 217439, 229742, 149169>>,
      <<923733, 716488, 216566, -161063, -220071, -101000, -37135, -102578, -196987, -200657, -108108, -32898, -104718, -346625, -621268, -694556, -395557>>,
      <<386729, 30594, -514682, -866473, -849217, -578231, -272335, -38123, 162270, 376695, 534305, 462793, 45039, -618688, -1195129, -1299983, -773365>>,
      <<128786, -316778, -934067, -1286361, -1145523, -611675, 26927, 525358, 799683, 874237, 763748, 431130, -134344, -803465, -1293582, -1315458, -794575>>,
      <<501334, 113789, -534388, -980646, -904286, -324146, 451996, 1050371, 1245340, 1032662, 560008, 8482, -480865, -813059, -923794, -793727, -487735>>,
      <<1160880, 952159, 357198, -237754, -454474, -168312, 425834, 954553, 1103832, 797004, 213881, -339596, -616816, -559675, -307651, -96071, -108379>>
    >>,
    \* seed 1
    <<
      <<1299999, 881670, 331565, 58394, 262690, 789646, 1246419, 1295015, 902377, 362645, 76781, 254689, 761135, 1218530, 1288473, 922098, 394041>>,
      <<1273334, -515990, 86050, -1338358, -1310547, -493616, 352695, 701034, 426157, -154017, -519180, -328509, 331121, 1013621, 1248002, 890128, 230602>>,
      <<818489, 477710, -1187134, -293279, -117408, -159709, 60883, 146293, -198487, -820664, -1264137, -1148371, -480943, 326950, 752943, 546545, -83629>>,
      <<272084, -851436, 98386, -1182805, -258460, 718841, 990942, 740035, 113992, -668273, -1255302, -1345996, -918095, -278742, 130225, 41198, -444143>>,
      <<41429, -1096856, 369514, 133206, -509006, 136876, 852070, 967599, 571782, -19915, -500797, -682531, -567200, -337214, -235955, -399170, -752216>>,
      <<300881, -714875, 53979, 1205765, 528542, -100046, -50702, 152605, 221171, 216885, 252985, 328969, 341403, 182280, -164813, -593502, -927251>>,
      <<860037, -136068, -160378, 1204631, 1338995, 340962, -523000, -827344, -671542, -193086, 451286, 1010521, 1207488, 907077, 230632, -490770, -908386>>,
      <<1303422, 314654, -342472, 518773, 1181289, 639530, -435680, -1191389, -1283656, -746960, 167598, 1063965, 1531674, 1351569, 642486, -185097, -670832>>,
      <<1299211, 434565, -584869, -374774, 350521, 434862, -184617, -891992, -1178404, -891759, -174898, 644112, 1189419, 1217254, 762051, 135264, -257633>>,
      <<847590, 242818, -812256, -1054656, -508681, -4375, 20605, -260035, -500095, -502051, -261970, 98010, 408308, 534657, 455103, 284350, 206766>>,
      <<282841, -34234, -867303, -1246895, -887180, -235781, 230026, 381289, 312026, 129694, -100181, -314132, -431654, -385951, -164541, 180343, 555051>>,
      <<25921, -122449, -663425, -949162, -674125, -57414, 521755, 842705, 857803, 584934, 77532, -530037, -1011942, -1135627, -796725, -103491, 659572>>,
      <<270667, 102354, -274883, -433150, -170366, 349809, 821105, 1042909, 968160, 621999, 55270, -620278, -1195570, -1416251, -1122425, -380552, 504726>>,
      <<837538, 523153, 98183, -72683, 147730, 579114, 915483, 965187, 728489, 313398, -172260, -648703, -1024588, -1173932, -987594, -472466, 191677>>,
      <<1305284, 867011, 262475, -98543, -29896, 320132, 627465, 650892, 375668, -33661, -385801, -583035, -635501, -595930, -495127, -335560, -133607>>,
      <<1323990, 906940, 165554, -449269, -627938, -387443, -5826, 211737, 143670, -102032, -308422, -324751, -166862, 14458, 56104, -100406, -376195>>,
      <<876870, 632495, -66817, -825135, -1242684, -1156019, -702327, -185888, 139200, 215173, 168669, 170808, 283466, 405367, 353317, 15469, -537100>>
    >>,
    \* seed 2
    <<
      <<1299999, 756462, 68712, 14707, 711991, 1439877, 1408531, 633693, -65986, 42316, 815354, 1413251, 1230486, 531520, 104450, 364251, 932363>>,
      <<1148125, -722134, -164630, -1309394, -807752, 139846, 448913, -8983, -529194, -417184, 263471, 821971, 753935, 288987, 67830, 367301, 798243>>,
      <<555636, 227030, -1298368, -40154, 500927, 383316, -46065, -687760, -1091836, -907887, -361940, -36611, -201216, -502981, -406498, 131245, 567490>>,
      <<228397, -822473, 351512, -633722, 391771, 1006869, 555322, -219277, -608072, -458914, -200555, -343681, -882945, -1256501, -965548, -189395, 329908>>,
      <<490731, -594062, 987849, 783437, -106523, -37981, 55516, 12248, 195365, 575077, 660196, 86875, -869014, -1457666, -1187930, -368976, 156400>>,
      <<951112, -81413, 597004, 1493793, 353684, -810063, -1033627, -526508, 371740, 1187418, 1364745, 704604, -345607, -1004738, -857383, -244969, 84959>>,
      <<1022149, -39851, -267326, 769011, 542441, -641963, -1285358, -914568, 67031, 972583, 1258782, 850854, 181046, -188697, -74396, 186608, 122882>>,
      <<642100, -395364, -1176525, -440538, 225937, -39583, -522903, -546753, -152454, 255355, 398779, 339332, 345545, 564859, 817923, 753419, 243731>>,
      <<330848, -520786, -1478218, -1096839, -25896, 585431, 553955, 239210, -125949, -468946, -657096, -476339, 148019, 949381, 1413169, 1172767, 378739>>,
      <<527261, -20349, -899480, -845297, 86311, 966157, 1186274, 742280, -77282, -895599, -1310414, -1040196, -149538, 883190, 1431127, 1184518, 429190>>,
      <<1021413, 748416, 34895, -192148, 273813, 875979, 1037522, 612470, -170171, -918750, -1259622, -1006702, -292072, 470598, 845749, 701298, 318298>>,
      <<1184483, 1028031, 448334, 53153, 95281, 318221, 362089, 118072, -262648, -553271, -615038, -463115, -237891, -99275, -95467, -106866, 56822>>,
      <<740018, 525167, 4844, -398000, -472181, -337201, -205336, -143221, -73240, 64153, 194852, 153773, -157856, -634848, -976032, -868139, -238290>>,
      <<150528, -201480, -731748, -1050441, -972721, -607904, -180290, 178477, 460616, 661931, 684289, 387649, -243185, -976883, -1405762, -1206328, -411602>>,
      <<121261, -313161, -896965, -1194316, -981871, -372439, 322437, 826330, 1026787, 942363, 624489, 118224, -489108, -1014098, -1221718, -977408, -389520>>,
      <<766144, 384113, -249746, -679863, -597744, -38910, 671552, 1150252, 1181174, 798136, 212533, -328125, -654448, -719403, -585745, -384628, -256099>>,
      <<1415192, 1200135, 584302, -51083, -334068, -143809, 328940, 728675, 775573, 437597, -68084, -431943, -459550, -197911, 97405, 135565, -201550>>
    >>,
    \* seed 3
    <<
      <<1299999, 866996, 295352, 35384, 297232, 881235, 1330216, 1287494, 780174, 202765, 10262, 359564, 981870, 1389624, 1258617, 685699, 117296>>,
      <<1258659, -541261, 48597, -1354481, -1267587, -399043, 431795, 685002, 298381, -312189, -578089, -216071, 553508, 1179200, 1209755, 648948, -43641>>,
      <<782276, 440257, -1216006, -284935, -51645, -60778, 122840, 104774, -340665, -971230, -1299324, -1014268, -255496, 474702, 689673, 292300, -349025>>,
      <<249074, -867559, 106731, -1131776, -166871, 810285, 1016552, 658222, -43831, -798484, -1248990, -1179856, -693846, -164492, 26273, -230352, -690491>>,
      <<75972, -1053896, 435277, 224795, -412462, 192233, 819002, 839822, 410619, -108136, -435731, -482001, -357469, -276030, -393031, -685068, -963609>>,
      <<392469, -620302, 152910, 1297210, 583898, -116079, -154085, -7031, 86174, 198087, 387088, 552691, 512497, 169232, -380051, -880384, -1081671>>,
      <<943834, -56969, -98421, 1230241, 1305927, 237580, -678566, -977910, -738061, -119837, 647732, 1228254, 1307207, 803125, -34684, -752778, -979815>>,
      <<1295901, 298621, -383992, 436960, 1053512, 479894, -586246, -1272581, -1243576, -580820, 393433, 1229544, 1527023, 1154206, 353717, -384900, -634873>>,
      <<1177008, 306789, -727047, -532597, 189358, 299865, -251136, -851912, -1024407, -669373, 20237, 705296, 1062031, 948705, 496655, 40116, -100807>>,
      <<687710, 84646, -962822, -1184867, -596902, -23173, 93854, -93895, -277709, -299075, -169724, 18272, 171910, 247775, 273882, 328651, 475697>>,
      <<216321, -93143, -902490, -1240584, -822114, -101678, 426472, 607124, 507161, 221940, -163451, -529370, -720071, -613436, -203481, 373798, 895821>>,
      <<130796, -10011, -529322, -783023, -473595, 166308, 739489, 1008284, 918987, 505196, -137706, -817019, -1258289, -1222942, -662994, 207578, 999222>>,
      <<491402, 324740, -49436, -208901, 39365, 520903, 920824, 1038258, 840771, 385600, -233146, -866625, -1298469, -1314345, -837932, -30256, 750159>>,
      <<1008632, 688732, 245935, 41567, 208914, 566066, 811531, 767824, 459940, 26515, -399746, -736017, -922682, -899652, -636666, -194257, 257469>>,
      <<1275429, 828764, 199206, -202495, -186972, 104893, 362149, 362124, 110273, -214883, -424741, -449303, -351007, -245003, -207174, -237733, -288448>>,
      <<1087591, 665760, -88691, -720820, -913836, -674325, -267834, 11933, 48523, -57731, -114967, -13682, 183435, 292667, 153931, -239578, -717412>>,
      <<600125, 358252, -332212, -1071482, -1454077, -1310439, -773756, -149929, 296026, 484104, 509439, 510458, 528900, 471160, 198476, -325748, -949201>>
    >>,
    \* seed 4
    <<
      <<1299999, 867271, 296017, 35766, 296519, 879519, 1328795, 1287890, 782615, 205579, 10994, 357099, 977737, 1387121, 1260178, 690610, 121850>>,
      <<1258934, -540790, 49278, -1354233, -1268454, -400802, 430475, 685558, 300911, -309428, -577510, -218666, 549373, 1176823, 1211469, 653917, -39170>>,
      <<782941, 440938, -1215507, -285157, -52924, -62579, 121876, 105804, -337915, -968675, -1299214, -1017225, -259601, 472724, 691839, 297418, -344825>>,
      <<249456, -867312, 106509, -1132791, -168586, 808695, 1016311, 659977, -40884, -796410, -1249677, -1183321, -697780, -165752, 29150, -225081, -686815>>,
      <<75259, -1054764, 433998, 223080, -414177, 191403, 819876, 842353, 413479, -106962, -437498, -485947, -360928, -276209, -389273, -679783, -960798>>,
      <<390754, -622061, 151109, 1295619, 583068, -115522, -151956, -4071, 88357, 197879, 384132, 548560, 509994, 170482, -375420, -875419, -1080143>>,
      <<942413, -58289, -99385, 1230000, 1306801, 239708, -675640, -975356, -737329, -121750, 643838, 1224560, 1306249, 806002, -29460, -748676, -980002>>,
      <<1296297, 299177, -382962, 438716, 1056043, 482854, -583691, -1271551, -1244891, -584284, 389351, 1227167, 1528116, 1158582, 358906, -382360, -637099>>,
      <<1179449, 309320, -724296, -529650, 192218, 302048, -250404, -853227, -1027683, -673508, 17160, 705118, 1065304, 953955, 500855, 40405, -105100>>,
      <<690524, 87407, -960268, -1182793, -595728, -23381, 91940, -97359, -281844, -302352, -170529, 20729, 176821, 252740, 276000, 326275, 469792>>,
      <<217053, -92564, -902380, -1241270, -823882, -104634, 422578, 603042, 504084, 221135, -161285, -524739, -714851, -610238, -204305, 368936, 889345>>,
      <<128331, -12606, -532279, -786487, -477540, 162177, 735794, 1005908, 918809, 507653, -133075, -811751, -1254614, -1222812, -666912, 201228, 993716>>,
      <<487269, 320605, -53541, -212835, 35906, 518400, 919866, 1039351, 844044, 390511, -227926, -862950, -1298022, -1317731, -844019, -36320, 747299>>,
      <<1006130, 686356, 243956, 40307, 208736, 567315, 814408, 772199, 465190, 31481, -396547, -735887, -926067, -905622, -642925, -197930, 258458>>,
      <<1276990, 830478, 201371, -199618, -183214, 109524, 367374, 367313, 114472, -212765, -425565, -453222, -357095, -251261, -211102, -237380, -283539>>,
      <<1092502, 670729, -83573, -715548, -908551, -669360, -263732, 14474, 48812, -60107, -119829, -20031, 177371, 288994, 154284, -234920, -710026>>,
      <<604679, 362723, -328013, -1067806, -1451266, -1308911, -773944, -152154, 291734, 478198, 502963, 504951, 526039, 472148, 203386, -318363, -942080>>
    >>
  >>

LatticeGardenField ==
  <<
    <<1249999, 660584, -219403, -399007, -326944, -428431, -271744, -3840, -274787, -549880, 106986, 1019228, 977461, 318127, -96805, -428436, -772487>>,
    <<1239174, 1218249, 277019, -431401, -126645, 281245, 113327, -12124, 164319, 176247, 309288, 1058729, 1568023, 915297, -62459, -259571, -73039>>,
    <<896009, 813842, 469388, -264338, -451087, 222025, 586438, 147229, -70843, 377799, 781807, 990723, 1324071, 1215603, 244859, -508503, -177191>>,
    <<693298, 82314, -287445, -387628, -568874, -367764, 267266, 351927, -199115, -169831, 646299, 1107110, 889900, 605590, 187966, -544068, -753512>>,
    <<144539, -233752, -1095016, -1189696, -719499, -511647, -364300, -38344, -102447, -443292, -76853, 777745, 808329, -17447, -592480, -749206, -917259>>,
    <<-648758, -517672, -1113714, -1680396, -1203457, -362817, -244799, -453887, -326902, -224951, -259314, 132708, 562366, 4383, -1083726, -1368673, -938458>>,
    <<-619425, -812944, -876655, -1172720, -1183464, -372153, 327184, 30263, -433355, -183505, 200911, 190000, 174950, 47979, -734822, -1498780, -1173649>>,
    <<236414, -350460, -727929, -500123, -269573, 6694, 618198, 842612, 240081, -134032, 387903, 808877, 423148, -105282, -412891, -836076, -970281>>,
    <<766043, 626559, -145425, -250589, 466900, 934255, 955155, 1040657, 922459, 393654, 300023, 889063, 981261, 133866, -528599, -444398, -225782>>,
    <<786427, 933964, 598694, 74171, 421532, 1331683, 1500482, 962021, 689130, 651110, 431698, 452007, 768528, 454065, -484100, -731157, -4797>>,
    <<956431, 580142, 515840, 403438, 301108, 810458, 1398036, 997094, 108638, -55164, 263115, 215905, 23741, -15097, -386918, -899809, -519180>>,
    <<1026432, 487343, -117485, 22009, 313466, 360240, 544885, 575827, -144563, -877096, -626336, -74152, -278364, -785991, -864747, -819033, -734886>>,
    <<536294, 548266, -232508, -643572, -104321, 341526, 81463, -258273, -500736, -1008946, -1266871, -726735, -289402, -787474, -1337914, -1026018, -428943>>,
    <<214578, 233159, -3358, -590264, -592479, 121162, 292110, -449085, -1010513, -985791, -968090, -896743, -449856, -307523, -873012, -1077263, -270749>>,
    <<608438, 64194, -165310, -199095, -358720, -158156, 318102, 52099, -864186, -1115164, -531120, -166708, -191504, -64220, -33245, -309683, -80572>>,
    <<832870, 423145, -362610, -375067, 40616, 112960, 110206, 184975, -223923, -806159, -487949, 435068, 676454, 287591, 246379, 504370, 603817>>,
    <<319365, 440222, -200752, -753966, -296891, 373721, 265882, -118684, -174761, -249253, -276773, 349761, 1104075, 924651, 306036, 434363, 1023199>>
  >>

\* sin((fx+1)*0.8) and cos((fy+1)*0.7) of design_knotwork, index fx+1 / fy+1
KnotSin ==
  <<717356, 999573, 675463, -58375, -756803, -996165, -631267, 116549, 793667,
    989358, 584917, -174327, -827827, -979178, -536573, 231509, 859161, 965657>>
KnotCos ==
  <<764842, 169967, -504847, -942223, -936457, -490261, 186512, 775565, 999858,
    753902, 153373, -519289, -947722, -930427, -475537, 203004, 786070, 999434>>

\* ------------------------------------------------------------------ designs
\* Each design's cell function f(fx, fy) as a function on Octant \X Octant.
RingsSpokesThresholds == <<-550000, -250000, -50000, 100000, 280000, 520000>>
rings_spokes_f(seed) ==
  [fx \in Octant, fy \in Octant |->
     IF ~_edge_mask(fx, fy, MaskMaxD) THEN 0
     ELSE quantize(RingsSpokesField[seed + 1][fx + 1][fy + 1],
                   RingsSpokesThresholds)]
design_rings_spokes(seed) == make_pattern_octant(rings_spokes_f(seed))

PetalVaultThresholds == <<-400000, -150000, 50000, 200000, 380000, 600000>>
\* r < 2.2 with r = sqrt(fx^2 + fy^2) + 1e-6: fx^2 + fy^2 < 4.84
petal_vault_val(seed, fx, fy) ==
  LET base == PetalVaultField[seed + 1][fx + 1][fy + 1]
  IN  IF 100 * (fx * fx + fy * fy) < 484 THEN base + 700000 ELSE base
petal_vault_f(seed) ==
  [fx \in Octant, fy \in Octant |->
     IF ~_edge_mask(fx, fy, MaskMaxD) THEN 0
     ELSE quantize(petal_vault_val(seed, fx, fy), PetalVaultThresholds)]
design_petal_vault(seed) == make_pattern_octant(petal_vault_f(seed))

StarburstThresholds == <<-450000, -200000, 0, 180000, 350000, 550000>>
starburst_val(seed, fx, fy) ==
  LET base == StarburstField[seed + 1][fx + 1][fy + 1]
  IN  IF fy = 0 \/ fx = fy THEN base + 350000 ELSE base
starburst_f(seed) ==
  [fx \in Octant, fy \in Octant |->
     IF ~_edge_mask(fx, fy, MaskMaxD) THEN 0
     ELSE quantize(starburst_val(seed, fx, fy), StarburstThresholds)]
design_starburst(seed) == make_pattern_octant(starburst_f(seed))

MosaicStepsThresholds == <<600000, 1150000, 1700000, 2200000, 2800000, 3400000>>
\* The float additions of lines 134-140 round.  For these combinations of
\* the terms, <<first, second, third, r % 6, fifth>> with 1 for a term that
\* is added, the float sum is below the float of the decimal sum; it is
\* carried as one millionth less, so that it compares with every threshold
\* as the float does (0.0 + 1.0 + 0.9 + 2*0.35 + 0.8 = 3.3999999999999995
\* is below 3.4).
MosaicRoundedBelow ==
  {<<0, 0, 0, 3, 0>>, <<0, 0, 0, 3, 1>>, <<0, 0, 1, 3, 0>>, <<0, 0, 1, 4, 1>>,
   <<0, 1, 0, 3, 1>>, <<0, 1, 1, 2, 0>>, <<0, 1, 1, 2, 1>>, <<0, 1, 1, 3, 0>>,
   <<1, 0, 1, 3, 1>>, <<1, 1, 0, 2, 1>>}
mosaic_steps_val(fx, fy) ==
  LET b1 == IF (fx + fy) % 4 \in {0, 1} THEN 1 ELSE 0
      b2 == IF (fx - fy) % 5 \in {0, 1} THEN 1 ELSE 0
      b3 == IF fx % 3 = 0 \/ fy % 3 = 0 THEN 1 ELSE 0
      r  == ISqrt(fx * fx + fy * fy)
      b5 == IF (fx * fy) % 11 = 0 THEN 1 ELSE 0
      sum == b1 * 1100000 + b2 * 1000000 + b3 * 900000 + (r % 6) * 350000
               + b5 * 800000
  IN  IF <<b1, b2, b3, r % 6, b5>> \in MosaicRoundedBelow THEN sum - 1
      ELSE sum

\* The cell function of mosaic_steps without the edge mask.
mosaic_steps_f_unmasked(seed) ==
  [fx \in Octant, fy \in Octant |->
     quantize(mosaic_steps_val(fx, fy), MosaicStepsThresholds)]

mosaic_steps_f(seed) ==
  [fx \in Octant, fy \in Octant |->
     IF ~_edge_mask(fx, fy, MaskMaxD) THEN 0
     ELSE quantize(mosaic_steps_val(fx, fy), MosaicStepsThresholds)]
design_mosaic_steps(seed) == make_pattern_octant(mosaic_steps_f(seed))

KnotworkThresholds == <<700000, 1350000, 2000000, 2550000, 3200000, 3900000>>
knotwork_val(fx, fy) ==
  LET v1 == IF fx % 4 \in {1, 2} /\ fy % 6 \in {2, 3} THEN 1800000 ELSE 0
      v2 == IF fy % 4 \in {1, 2} /\ fx % 6 \in {2, 3} THEN 1600000 ELSE 0
      v3 == IF ISqrt(fx * fx + fy * fy) % 5 = 0 THEN 1500000 ELSE 0
      v4 == IF fx % 7 = 0 /\ fy % 7 = 0 THEN 800000 ELSE 0
      v5 == (6 * (KnotSin[fx + 1] + KnotCos[fy + 1])) \div 10
  IN  v1 + v2 + v3 + v4 + v5
\* A knotwork cell function whose wave term is shifted by the seed.
knotwork_f_seeded(seed) ==
  [fx \in Octant, fy \in Octant |->
     IF ~_edge_mask(fx, fy, MaskMaxD) THEN 0
     ELSE quantize(knotwork_val((fx + seed) % (CX + 1), fy),
                   KnotworkThresholds)]

knotwork_f(seed) ==
  [fx \in Octant, fy \in Octant |->
     IF ~_edge_mask(fx, fy, MaskMaxD) THEN 0
     ELSE quantize(knotwork_val(fx, fy), KnotworkThresholds)]
design_knotwork(seed) == make_pattern_octant(knotwork_f(seed))

LatticeGardenThresholds == <<-400000, -150000, 50000, 220000, 400000, 620000>>
lattice_garden_f(seed) ==
  [fx \in Octant, fy \in Octant |->
     IF ~_edge_mask(fx, fy, MaskMaxD) THEN 0
     ELSE quantize(LatticeGardenField[fx + 1][fy + 1], LatticeGardenThresholds)]
design_lattice_garden(seed) == make_pattern_octant(lattice_garden_f(seed))

DesignKeys ==
  {"rings_spokes", "petal_vault", "starburst", "mosaic_steps", "knotwork",
   "lattice_garden"}
\* The registry: DESIGNS[design_key][seed] is DESIGNS[design_key](seed).
DESIGNS ==
  [design_key \in DesignKeys |->
     [seed \in Seeds |->
        CASE design_key = "rings_spokes"   -> design_rings_spokes(seed)
          [] design_key = "petal_vault"    -> design_petal_vault(seed)
          [] design_key = "starburst"      -> design_starburst(seed)
          [] design_key = "mosaic_steps"   -> design_mosaic_steps(seed)
          [] design_key = "knotwork"       -> design_knotwork(seed)
          [] design_key = "lattice_garden" -> design_lattice_garden(seed)]]

\* ---------------------------------------------------------------- palettes
\* A hex colour string is the sequence of its characters.
PaletteKeys ==
  {"jewel_bazaar", "forest_copper", "ocean_coral", "night_neon",
   "antique_sampler"}
\* A registry whose first palette lost its last colour.
PALETTES_short ==
  [palette_key \in PaletteKeys |->
  CASE palette_key = "jewel_bazaar" ->
         << <<"#","F","7","F","0","E","8">>,
           <<"#","1","B","4","F","7","2">>,
           <<"#","7","D","3","C","9","8">>,
           <<"#","1","1","7","A","6","5">>,
           <<"#","B","0","3","A","2","E">>,
           <<"#","A","F","6","0","1","A">> >>
    [] palette_key = "forest_copper" ->
         << <<"#","F","B","F","6","E","F">>,
           <<"#","1","E","2","D","2","4">>,
           <<"#","2","E","6","B","4","F">>,
           <<"#","7","A","8","F","3","A">>,
           <<"#","B","7","6","E","3","A">>,
           <<"#","6","B","3","E","2","6">>,
           <<"#","2","A","7","F","A","A">> >>
    [] palette_key = "ocean_coral" ->
         << <<"#","F","5","F","B","F","F">>,
           <<"#","0","B","3","9","5","4">>,
           <<"#","0","8","7","E","8","B">>,
           <<"#","B","F","D","7","E","A">>,
           <<"#","F","F","5","A","5","F">>,
           <<"#","C","8","1","D","2","5">>,
           <<"#","4","E","8","0","9","8">> >>
    [] palette_key = "night_neon" ->
         << <<"#","0","A","0","A","0","B">>,
           <<"#","0","0","E","5","F","F">>,
           <<"#","F","F","2","E","E","A">>,
           <<"#","F","F","D","4","0","0">>,
           <<"#","0","0","F","F","6","A">>,
           <<"#","7","C","4","D","F","F">>,
           <<"#","F","F","F","F","F","F">> >>
    [] palette_key = "antique_sampler" ->
         << <<"#","F","A","F","5","E","A">>,
           <<"#","2","E","2","A","2","4">>,
           <<"#","6","C","4","B","3","B">>,
           <<"#","A","7","7","B","5","A">>,
           <<"#","C","2","A","4","6","B">>,
           <<"#","6","E","7","F","6","3">>,
           <<"#","9","B","4","F","4","F">> >>]

PALETTES ==
  [palette_key \in PaletteKeys |->
  CASE palette_key = "jewel_bazaar" ->
         << <<"#","F","7","F","0","E","8">>,
           <<"#","1","B","4","F","7","2">>,
           <<"#","7","D","3","C","9","8">>,
           <<"#","1","1","7","A","6","5">>,
           <<"#","B","0","3","A","2","E">>,
           <<"#","A","F","6","0","1","A">>,
           <<"#","5","D","4","0","3","7">> >>
    [] palette_key = "forest_copper" ->
         << <<"#","F","B","F","6","E","F">>,
           <<"#","1","E","2","D","2","4">>,
           <<"#","2","E","6","B","4","F">>,
           <<"#","7","A","8","F","3","A">>,
           <<"#","B","7","6","E","3","A">>,
           <<"#","6","B","3","E","2","6">>,
           <<"#","2","A","7","F","A","A">> >>
    [] palette_key = "ocean_coral" ->
         << <<"#","F","5","F","B","F","F">>,
           <<"#","0","B","3","9","5","4">>,
           <<"#","0","8","7","E","8","B">>,
           <<"#","B","F","D","7","E","A">>,
           <<"#","F","F","5","A","5","F">>,
           <<"#","C","8","1","D","2","5">>,
           <<"#","4","E","8","0","9","8">> >>
    [] palette_key = "night_neon" ->
         << <<"#","0","A","0","A","0","B">>,
           <<"#","0","0","E","5","F","F">>,
           <<"#","F","F","2","E","E","A">>,
           <<"#","F","F","D","4","0","0">>,
           <<"#","0","0","F","F","6","A">>,
           <<"#","7","C","4","D","F","F">>,
           <<"#","F","F","F","F","F","F">> >>
    [] palette_key = "antique_sampler" ->
         << <<"#","F","A","F","5","E","A">>,
           <<"#","2","E","2","A","2","4">>,
           <<"#","6","C","4","B","3","B">>,
           <<"#","A","7","7","B","5","A">>,
           <<"#","C","2","A","4","6","B">>,
           <<"#","6","E","7","F","6","3">>,
           <<"#","9","B","4","F","4","F">> >>]
\* int(s, 16) on one character: the value of a hexadecimal digit.
HexChars ==
  {"0", "1", "2", "3", "4", "5", "6", "7", "8", "9",
   "a", "b", "c", "d", "e", "f", "A", "B", "C", "D", "E", "F"}
HexValue ==
  [c \in HexChars |->
     CASE c = "0" -> 0 [] c = "1" -> 1 [] c = "2" -> 2 [] c = "3" -> 3
       [] c = "4" -> 4 [] c = "5" -> 5 [] c = "6" -> 6 [] c = "7" -> 7
       [] c = "8" -> 8 [] c = "9" -> 9
       [] c \in {"a", "A"} -> 10 [] c \in {"b", "B"} -> 11
       [] c \in {"c", "C"} -> 12 [] c \in {"d", "D"} -> 13
       [] c \in {"e", "E"} -> 14 [] c \in {"f", "F"} -> 15]
HexDigit(c) == HexValue[c]

\* h.lstrip("#")
RECURSIVE lstrip_hash(_)
lstrip_hash(h) ==
  IF Len(h) > 0 /\ h[1] = "#" THEN lstrip_hash(Tail(h)) ELSE h

hex_to_rgb(h) ==
  LET s == lstrip_hash(h)
  IN  <<16 * HexDigit(s[1]) + HexDigit(s[2]),
        16 * HexDigit(s[3]) + HexDigit(s[4]),
        16 * HexDigit(s[5]) + HexDigit(s[6])>>

\* ---------------------------------------------------------------- rendering
\* A grid is indexed [y][x] from 0; grid.shape is (h, w).
GridH(g) == Cardinality(DOMAIN g)
GridW(g) == IF GridH(g) = 0 THEN 0 ELSE Cardinality(DOMAIN g[0])

\* An image is its size, the colour Image.new filled it with, and the
\* rectangles drawn on it: rects[y, x] is the rectangle drawn for grid cell
\* (x, y), box = <<x0, y0, x1, y1>> with inclusive corners as handed to
\* draw.rectangle.  The loops "for y ... for x ..." draw them in row-major
\* order.
GridlineColor == <<230, 230, 230>>
NoImage == [exc |-> "unset"]
Raised(e, at) == [exc |-> e, at |-> at]

\* Image.new("RGB", size, color)
Image_new(size, color) ==
  IF size[1] < 0 \/ size[2] < 0 THEN Raised("ValueError", "Image.new")
  ELSE [exc |-> "none", size |-> size, background |-> color, rects |-> <<>>]

\* palette[i] with Python's indexing: a negative i counts from the end.
PaletteIndexOk(palette, i) == -Len(palette) <= i /\ i < Len(palette)
PaletteAt(palette, i) ==
  IF i >= 0 THEN palette[i + 1] ELSE palette[Len(palette) + i + 1]

\* A chart renderer that leaves no gridline before the first row and column.
render_chart_tight(g, palette, cell, gridline) ==
  LET h == GridH(g)
      w == GridW(g)
      img == Image_new(<<w * cell + (w + 1) * gridline,
                         h * cell + (h + 1) * gridline>>, GridlineColor)
  IN  IF img.exc # "none" THEN img
      ELSE [img EXCEPT !.rects =
              [y \in 0..(h - 1), x \in 0..(w - 1) |->
                 LET c == hex_to_rgb(PaletteAt(palette, g[y][x]))
                     x0 == x * cell + x * gridline
                     y0 == y * cell + y * gridline
                 IN  [box |-> <<x0, y0, x0 + cell - 1, y0 + cell - 1>>,
                      fill |-> c]]]

render_chart(g, palette, cell, gridline) ==
  LET h == GridH(g)
      w == GridW(g)
      img == Image_new(<<w * cell + (w + 1) * gridline,
                         h * cell + (h + 1) * gridline>>, GridlineColor)
  IN  IF img.exc # "none" THEN img
      ELSE IF \E y \in DOMAIN g : \E x \in DOMAIN g[y] :
                ~PaletteIndexOk(palette, g[y][x])
      THEN Raised("IndexError", "palette")
      ELSE [img EXCEPT !.rects =
              [y \in 0..(h - 1), x \in 0..(w - 1) |->
                 LET c == hex_to_rgb(PaletteAt(palette, g[y][x]))
                     x0 == x * cell + (x + 1) * gridline
                     y0 == y * cell + (y + 1) * gridline
                 IN  [box |-> <<x0, y0, x0 + cell - 1, y0 + cell - 1>>,
                      fill |-> c]]]

render_preview(g, palette, cell) ==
  LET h == GridH(g)
      w == GridW(g)
      img == Image_new(<<w * cell, h * cell>>, hex_to_rgb(palette[1]))
  IN  IF img.exc # "none" THEN img
      ELSE IF \E y \in DOMAIN g : \E x \in DOMAIN g[y] :
                ~PaletteIndexOk(palette, g[y][x])
      THEN Raised("IndexError", "palette")
      ELSE [img EXCEPT !.rects =
              [y \in 0..(h - 1), x \in 0..(w - 1) |->
                 LET c == hex_to_rgb(PaletteAt(palette, g[y][x]))
                     x0 == x * cell
                     y0 == y * cell
                 IN  [box |-> <<x0, y0, x0 + cell - 1, y0 + cell - 1>>,
                      fill |-> c]]]

\* draw.rectangle with x1 < x0 or y1 < y0 (cell <= 0): the imaging library
\* either rejects the box with a ValueError, at the first rectangle, or swaps
\* the corners and paints, depending on its version.  r is the result with
\* the corners swapped; both outcomes are possible.
RejectingOutcome(g, palette) ==
  IF PaletteIndexOk(palette, g[0][0]) THEN Raised("ValueError", "rectangle")
  ELSE Raised("IndexError", "palette")
DrawOutcomes(g, palette, cell, r) ==
  IF /\ cell <= 0
     /\ GridH(g) * GridW(g) > 0
     /\ ~(r.exc = "ValueError" /\ r.at = "Image.new")
  THEN {r, RejectingOutcome(g, palette)}
  ELSE {r}

\* The colour of pixel (px, py): the fill of the last rectangle drawn over
\* it, else the background.
Covers(box, px, py) ==
  /\ Min2(box[1], box[3]) <= px /\ px <= Max2(box[1], box[3])
  /\ Min2(box[2], box[4]) <= py /\ py <= Max2(box[2], box[4])
DrawnBefore(p, q) == p[1] < q[1] \/ (p[1] = q[1] /\ p[2] <= q[2])
PixelAt(img, px, py) ==
  LET hits == {p \in DOMAIN img.rects : Covers(img.rects[p].box, px, py)}
  IN  IF hits = {} THEN img.background
      ELSE img.rects[CHOOSE p \in hits : \A q \in hits : DrawnBefore(q, p)].fill

\* ------------------------------------------------------------ state machine
\* call    : the entry point running (or last run) and its arguments
\* pc      : the position inside it
\* grid    : the index grid computed by / handed to the call
\* chart, preview : the images rendered by the call
\* exc     : the exception the call raised, "none" if none
\* bundle  : the member names of the ZIP returned by generate_bundle
\* out     : the value returned by fold_d8 or quantize
\* ref     : history: an earlier call with its results, for comparing a
\*           later call of the same function on the same arguments
VARIABLES call, pc, grid, chart, preview, exc, bundle, out, ref

vars == <<call, pc, grid, chart, preview, exc, bundle, out, ref>>

NoGrid == <<>>
NoCall == [op |-> "none"]
NoOut == <<>>
NoRef == [call |-> NoCall]

Init ==
  /\ call = NoCall
  /\ pc = "idle"
  /\ grid = NoGrid
  /\ chart = NoImage
  /\ preview = NoImage
  /\ exc = "none"
  /\ bundle = {}
  /\ out = NoOut
  /\ ref = NoRef

\* No call is running: a new one may start.
Ready == pc = "idle"

\* The call has returned or raised: its caller takes the result and the
\* locals of the call are gone.
finish ==
  /\ pc \in {"returned", "raised"}
  /\ call' = NoCall
  /\ pc' = "idle"
  /\ grid' = NoGrid
  /\ chart' = NoImage
  /\ preview' = NoImage
  /\ exc' = "none"
  /\ bundle' = {}
  /\ out' = NoOut
  /\ ref' = ref

\* ------------------------------------------------------- generate_bundle
BundleDesignArgs == DesignKeys \cup {"not_a_design"}
BundlePaletteArgs == PaletteKeys \cup {"not_a_palette"}
BundleCells == (-1..MaxCell) \cup {DefaultCell}
\* no gridlines, and the default width
BundleGridlines == {0, 1}

\* generate_bundle(design_key, palette_key, seed, cell, gridline) is entered
generate_bundle_call ==
  \E dk \in BundleDesignArgs, pk \in BundlePaletteArgs, s \in BundleSeeds,
     c \in BundleCells, gl \in BundleGridlines :
    /\ Ready
    /\ call' = [op |-> "generate_bundle", design_key |-> dk,
                palette_key |-> pk, seed |-> s, cell |-> c, gridline |-> gl]
    /\ pc' = "check_design"
    /\ UNCHANGED <<grid, chart, preview, exc, bundle, out, ref>>

generate_bundle_check_design ==
  /\ pc = "check_design"
  /\ IF call.design_key \notin DOMAIN DESIGNS
     THEN pc' = "raised" /\ exc' = "KeyError"
     ELSE pc' = "check_palette" /\ exc' = exc
  /\ UNCHANGED <<call, grid, chart, preview, bundle, out, ref>>

\* A palette check that lets every key through.
generate_bundle_check_palette_lenient ==
  /\ pc = "check_palette"
  /\ pc' = "gen_grid"
  /\ UNCHANGED <<call, grid, chart, preview, exc, bundle, out, ref>>

generate_bundle_check_palette ==
  /\ pc = "check_palette"
  /\ IF call.palette_key \notin DOMAIN PALETTES
     THEN pc' = "raised" /\ exc' = "KeyError"
     ELSE pc' = "gen_grid" /\ exc' = exc
  /\ UNCHANGED <<call, grid, chart, preview, bundle, out, ref>>

\* grid = DESIGNS[design_key](seed)
generate_bundle_grid ==
  /\ pc = "gen_grid"
  /\ grid' = DESIGNS[call.design_key][call.seed]
  /\ pc' = "render_chart"
  /\ UNCHANGED <<call, chart, preview, exc, bundle, out, ref>>

\* chart = render_chart(grid, palette, cell=cell, gridline=gridline)
generate_bundle_chart ==
  /\ pc = "render_chart"
  /\ LET palette == PALETTES[call.palette_key]
     IN  \E r \in DrawOutcomes(grid, palette, call.cell,
                     render_chart(grid, palette, call.cell, call.gridline)) :
           IF r.exc = "none"
           THEN chart' = r /\ pc' = "render_preview" /\ exc' = exc
           ELSE chart' = chart /\ pc' = "raised" /\ exc' = r.exc
  /\ UNCHANGED <<call, grid, preview, bundle, out, ref>>

\* A preview cell size that is never below the chart's.
preview_cell_same(cell) == Max2(6, cell)

\* The cell size generate_bundle renders the preview with.
preview_cell(cell) == Max2(6, cell \div 2)

\* render_legend(palette, title): the size of the legend image, one row of
\* sw + 10 pixels per colour under the title
render_legend_size(palette) == <<760, 14 * 2 + 40 + Len(palette) * (44 + 10)>>

\* build_pdf_bytes(title, chart, legend): both images are scaled to the
\* page by min(max_w / w, max_h / h), the chart first; a zero width or
\* height is a division by zero.
build_pdf_bytes(chart_size, legend_size) ==
  IF chart_size[1] = 0 \/ chart_size[2] = 0 THEN "ZeroDivisionError"
  ELSE IF legend_size[1] = 0 \/ legend_size[2] = 0 THEN "ZeroDivisionError"
  ELSE "none"

\* preview = render_preview(grid, palette, cell=max(6, cell//2)), then the
\* legend, the PDF and the ZIP packing, and the return of the bundle
generate_bundle_preview ==
  /\ pc = "render_preview"
  /\ LET palette == PALETTES[call.palette_key]
         cell == preview_cell(call.cell)
         pdf == build_pdf_bytes(chart.size, render_legend_size(palette))
     IN  \E r \in DrawOutcomes(grid, palette, cell,
                     render_preview(grid, palette, cell)) :
           IF r.exc # "none"
           THEN /\ preview' = preview
                /\ bundle' = bundle
                /\ pc' = "raised"
                /\ exc' = r.exc
           ELSE IF pdf # "none"
           THEN /\ preview' = r
                /\ bundle' = bundle
                /\ pc' = "raised"
                /\ exc' = pdf
           ELSE /\ preview' = r
                /\ bundle' = {"chart.png", "preview.png", "legend.png",
                              "pattern_indices.csv", "palette.csv",
                              "chart.pdf", "README.txt"}
                /\ pc' = "returned"
                /\ exc' = exc
  /\ UNCHANGED <<call, grid, chart, out, ref>>

\* ----------------------------------------------------------- direct calls
\* DESIGNS[design_key](seed)
design_call ==
  \E dk \in DesignKeys, s \in Seeds :
    /\ Ready
    /\ call' = [op |-> "design", design_key |-> dk, seed |-> s]
    /\ grid' = DESIGNS[dk][s]
    /\ pc' = "returned"
    /\ UNCHANGED <<chart, preview, exc, bundle, out, ref>>

\* make_pattern_octant(func) with func(fx, fy) = (a*fx + b*fy + c) % 7
ProbeFunc(a, b, c) ==
  [fx \in Octant, fy \in Octant |-> (a * fx + b * fy + c) % 7]
make_pattern_octant_call ==
  \E a \in 0..MaxCoef, b \in 0..MaxCoef, c \in 0..MaxCoef :
    /\ Ready
    /\ call' = [op |-> "make_pattern_octant", a |-> a, b |-> b, c |-> c]
    /\ grid' = make_pattern_octant(ProbeFunc(a, b, c))
    /\ pc' = "returned"
    /\ UNCHANGED <<chart, preview, exc, bundle, out, ref>>

\* fold_d8(dx, dy)
Offsets == (-(CX + MaxOver))..(CX + MaxOver)
fold_d8_call ==
  \E dx \in Offsets, dy \in Offsets :
    /\ Ready
    /\ call' = [op |-> "fold_d8", dx |-> dx, dy |-> dy]
    /\ out' = fold_d8(dx, dy)
    /\ pc' = "returned"
    /\ UNCHANGED <<grid, chart, preview, exc, bundle, ref>>

\* quantize(val, thresholds) on every list of up to MaxThr thresholds,
\* ascending or not
QValues == (-MaxQ)..MaxQ
QThresholds == UNION {[1..n -> QValues] : n \in 0..MaxThr}
quantize_call ==
  \E val \in (-(MaxQ + 1))..(MaxQ + 1), th \in QThresholds :
    /\ Ready
    /\ call' = [op |-> "quantize", val |-> val, thresholds |-> th]
    /\ out' = quantize(val, th)
    /\ pc' = "returned"
    /\ UNCHANGED <<grid, chart, preview, exc, bundle, ref>>

\* render_chart(grid, palette, cell, gridline) and
\* render_preview(grid, palette, cell) on a small grid
SmallGrid(h, w, a) ==
  [y \in 0..(h - 1) |-> [x \in 0..(w - 1) |-> (a + x + 3 * y) % 7]]
RenderPaletteKeys == {"jewel_bazaar", "night_neon"}
render_chart_call ==
  \E h \in 1..MaxDim, w \in 1..MaxDim, a \in 0..MaxShift,
     pk \in RenderPaletteKeys, c \in 1..MaxRCell, gl \in 0..MaxGridline :
    /\ Ready
    /\ call' = [op |-> "render_chart", h |-> h, w |-> w, a |-> a,
                palette_key |-> pk, cell |-> c, gridline |-> gl]
    /\ grid' = SmallGrid(h, w, a)
    /\ \E r \in DrawOutcomes(grid', PALETTES[pk], c,
                  render_chart(grid', PALETTES[pk], c, gl)) :
         IF r.exc = "none"
         THEN chart' = r /\ pc' = "returned" /\ exc' = exc
         ELSE chart' = chart /\ pc' = "raised" /\ exc' = r.exc
    /\ UNCHANGED <<preview, bundle, out, ref>>

render_preview_call ==
  \E h \in 1..MaxDim, w \in 1..MaxDim, a \in 0..MaxShift,
     pk \in RenderPaletteKeys, c \in 1..MaxRCell :
    /\ Ready
    /\ call' = [op |-> "render_preview", h |-> h, w |-> w, a |-> a,
                palette_key |-> pk, cell |-> c]
    /\ grid' = SmallGrid(h, w, a)
    /\ \E r \in DrawOutcomes(grid', PALETTES[pk], c,
                  render_preview(grid', PALETTES[pk], c)) :
         IF r.exc = "none"
         THEN preview' = r /\ pc' = "returned" /\ exc' = exc
         ELSE preview' = preview /\ pc' = "raised" /\ exc' = r.exc
    /\ UNCHANGED <<chart, bundle, out, ref>>

\* History: the caller keeps the returned call and its results for
\* comparison with a later call; the locals of the call are gone.
remember ==
  /\ pc = "returned"
  /\ ref' = [call |-> call, grid |-> grid, chart |-> chart,
             preview |-> preview]
  /\ call' = NoCall
  /\ pc' = "idle"
  /\ grid' = NoGrid
  /\ chart' = NoImage
  /\ preview' = NoImage
  /\ exc' = "none"
  /\ bundle' = {}
  /\ out' = NoOut

\* ---------------------------------------------------------- api_generate
\* A form field is <<>> when absent or empty and <<n>> when it holds n:
\* int(request.form.get(name, default) or default)
FormInt(field, default) == IF field = <<>> THEN default ELSE field[1]

ClampLow(v, lo) == IF v < lo THEN lo ELSE v
ClampHigh(v, hi) == IF v > hi THEN hi ELSE v

ApiDesignArgs == DesignKeys \cup {"not_a_design"}
ApiPaletteArgs == {"jewel_bazaar", "not_a_palette"}
\* The form's fields, each absent (<<>>) or holding an integer.  The seed:
\* absent, 0 (both replaced from the clock) or a positive seed.
ApiSeedFields == {<<>>, <<0>>, <<MaxApiSeed>>}
\* ncolors: absent, every count of the range 3..7, one below and one above.
ApiNcolorsFields ==
  {<<>>, <<3 - MaxNcOver>>, <<7 + MaxNcOver>>} \cup {<<k>> : k \in 3..7}
\* smooth and lines: one value below the range (clamped to 0) and one in it.
ApiSmoothFields == {<<-1>>, <<MaxSmooth>>}
ApiLinesFields == {<<-1>>, <<MaxLines>>}
\* cell and gridline, which the handler passes on unclamped: both absent
\* (the defaults 22 and 1), a small cell without gridlines, a zero cell
\* with wide gridlines.
ApiSizeFields == {<<<<>>, <<>>>>, <<<<5>>, <<0>>>>, <<<<0>>, <<3>>>>}
\* The seed the handler draws from the clock when the form's seed is 0:
\* HHMMSSffffff mod 2*10^9, which is 0 at some instants and positive at
\* the others.
ClockSeeds == {0, MaxApiSeed}

\* ncolors after the handler's clamping to 3..7
api_ncolors(field) == ClampHigh(ClampLow(FormInt(field, 7), 3), 7)

\* POST /api/generate: the form is read, the knobs are clamped, a zero seed
\* is replaced, and the handler calls kaleido.generate_png_preview with the
\* result.  The module kaleido defines no generate_png_preview, so the
\* attribute lookup raises AttributeError before anything is generated;
\* the handler catches nothing.
api_generate ==
  \E design \in ApiDesignArgs, palette \in ApiPaletteArgs,
     seedf \in ApiSeedFields, ncf \in ApiNcolorsFields,
     smoothf \in ApiSmoothFields, linesf \in ApiLinesFields,
     sizef \in ApiSizeFields,
     clock \in ClockSeeds :
    /\ Ready
    \* the clock is read only for a zero seed
    /\ FormInt(seedf, 0) # 0 => clock = 0
    /\ call' = [op |-> "api_generate",
                design |-> design,
                palette |-> palette,
                seed |-> IF FormInt(seedf, 0) = 0 THEN clock
                         ELSE FormInt(seedf, 0),
                requested |-> FormInt(ncf, 7),
                ncolors |-> api_ncolors(ncf),
                smooth |-> ClampHigh(ClampLow(FormInt(smoothf, 3), 0), 6),
                lines |-> ClampHigh(ClampLow(FormInt(linesf, 6), 0), 10),
                cell |-> FormInt(sizef[1], 22),
                gridline |-> FormInt(sizef[2], 1)]
    /\ pc' = "raised"
    /\ exc' = "AttributeError"
    /\ UNCHANGED <<grid, chart, preview, bundle, out, ref>>

\* --------------------------------------------------------- specifications
\* generate_bundle
Next ==
  \/ generate_bundle_call
  \/ generate_bundle_check_design
  \/ generate_bundle_check_palette
  \/ generate_bundle_grid
  \/ generate_bundle_chart
  \/ generate_bundle_preview
  \/ finish
Spec == Init /\ [][Next]_vars

\* the design functions and make_pattern_octant
NextDesign == design_call \/ make_pattern_octant_call \/ finish
SpecDesign == Init /\ [][NextDesign]_vars

\* fold_d8
NextFold == fold_d8_call \/ finish
SpecFold == Init /\ [][NextFold]_vars

\* quantize
NextQuantize == quantize_call \/ finish
SpecQuantize == Init /\ [][NextQuantize]_vars

\* the renderers on small grids
NextRender == render_chart_call \/ render_preview_call \/ finish
SpecRender == Init /\ [][NextRender]_vars

\* sequences of design and render_chart calls, with one earlier call
\* remembered
NextDet ==
  \/ design_call
  \/ render_chart_call
  \/ remember
  \/ finish
SpecDet == Init /\ [][NextDet]_vars

\* the HTTP form handler
NextApi == api_generate \/ finish
SpecApi == Init /\ [][NextApi]_vars

\* ------------------------------------------------------------------ claims
\* The 8 dihedral images of an offset: sign flips of either component and
\* the swap of the components.
Orbit(dx, dy) ==
  {<<dx, dy>>, <<-dx, dy>>, <<dx, -dy>>, <<-dx, -dy>>,
   <<dy, dx>>, <<-dy, dx>>, <<dy, -dx>>, <<-dy, -dx>>}

\* C8: fold_d8(dx, dy) is (max(|dx|,|dy|), min(|dx|,|dy|)), so fx >= fy >= 0;
\* another offset folds to the same pair exactly when it is one of the 8
\* dihedral images of (dx, dy); and for the offsets of the cells of the
\* 35x35 grid, 0 <= fy <= fx <= 17.
FoldCanonical ==
  (pc = "returned" /\ call.op = "fold_d8") =>
    LET dx == call.dx
        dy == call.dy
    IN  /\ out = <<Max2(Abs(dx), Abs(dy)), Min2(Abs(dx), Abs(dy))>>
        /\ out[1] >= out[2] /\ out[2] >= 0
        /\ \A ex \in Offsets, ey \in Offsets :
             (fold_d8(ex, ey) = out) <=> (<<ex, ey>> \in Orbit(dx, dy))
        /\ (dx + CX \in 0..(N - 1) /\ dy + CY \in 0..(N - 1)) => out[1] <= 17

\* fold_d8(-3, 5) has returned (5, 3): absolute values taken, components
\* swapped.
FoldCanonicalWitness ==
  /\ pc = "returned" /\ call.op = "fold_d8"
  /\ call.dx = -3 /\ call.dy = 5
  /\ out = <<5, 3>>

Ascending(s) == \A i \in 1..Len(s) : \A j \in i..Len(s) : s[i] <= s[j]

\* C7: on an ascending threshold list, quantize(val, thresholds) is the
\* number of thresholds t with val >= t: 0 below the first threshold, a
\* value equal to a threshold counts that threshold, the result is in
\* 0..len(thresholds), and a smaller value never gets a larger result.
QuantizeCounts ==
  (pc = "returned" /\ call.op = "quantize" /\ Ascending(call.thresholds)) =>
    LET val == call.val
        th == call.thresholds
    IN  /\ out = Cardinality({i \in 1..Len(th) : val >= th[i]})
        /\ out \in 0..Len(th)
        /\ (Len(th) > 0 /\ val < th[1]) => out = 0
        /\ \A i \in 1..Len(th) : val = th[i] => out >= i
        /\ \A v \in (-(MaxQ + 1))..(MaxQ + 1) :
             v <= val => quantize(v, th) <= out

\* quantize(0, [-1, 0, 2]) has returned 2: the value equals the second
\* threshold and falls in the bucket above it.
QuantizeCountsWitness ==
  /\ pc = "returned" /\ call.op = "quantize"
  /\ call.val = 0 /\ call.thresholds = <<-1, 0, 2>>
  /\ out = 2

\* The value of cell (x, y) of g and of its 7 dihedral counterparts about
\* the centre cell.
Counterparts(g, x, y) ==
  {g[y][x], g[y][N - 1 - x], g[N - 1 - y][x], g[N - 1 - y][N - 1 - x],
   g[x][y], g[x][N - 1 - y], g[N - 1 - x][y], g[N - 1 - x][N - 1 - y]}

\* C1: the 35x35 grid returned by a design function, and by
\* make_pattern_octant for any cell function, is invariant under the 8
\* dihedral operations about the centre cell: grid[y][x] = grid[y][34-x] =
\* grid[34-y][x] = grid[x][y], so a cell equals all 7 of its counterparts.
GridSymmetric ==
  (pc = "returned" /\ call.op \in {"design", "make_pattern_octant"}) =>
    \A x \in 0..(N - 1), y \in 0..(N - 1) :
      /\ grid[y][x] = grid[y][34 - x]
      /\ grid[y][x] = grid[34 - y][x]
      /\ grid[y][x] = grid[x][y]
      /\ Counterparts(grid, x, y) = {grid[y][x]}

\* make_pattern_octant has returned the grid of the cell function
\* (fx + 2*fy) % 7, which is not symmetric in its arguments: cell (9, 4)
\* holds func(13, 8) = 1, and so does its transpose.
GridSymmetricWitness ==
  /\ pc = "returned" /\ call.op = "make_pattern_octant"
  /\ call.a = 1 /\ call.b = 2 /\ call.c = 0
  /\ grid[4][9] = 1 /\ grid[9][4] = 1
  /\ ProbeFunc(1, 2, 0)[8, 13] # 1

\* C9: in the grid of every design and seed, every cell whose folded
\* offset has max(fx, fy) > 16 holds 0, so rows 0 and 34 and columns 0 and
\* 34 are all 0.
BorderBackground ==
  (pc = "returned" /\ call.op = "design") =>
    /\ \A x \in 0..(N - 1), y \in 0..(N - 1) :
         Max2(Abs(x - CX), Abs(y - CY)) > 16 => grid[y][x] = 0
    /\ \A i \in 0..(N - 1) :
         grid[0][i] = 0 /\ grid[34][i] = 0 /\ grid[i][0] = 0 /\ grid[i][34] = 0

\* mosaic_steps has returned: the border cell (17, 0) holds 0 next to the
\* cell (17, 1) holding 6.
BorderBackgroundWitness ==
  /\ pc = "returned" /\ call.op = "design"
  /\ call.design_key = "mosaic_steps"
  /\ grid[0][17] = 0 /\ grid[1][17] = 6

\* The pixels of the block of grid cell (x, y) in a chart with the given
\* cell size and gridline width.
Block(x, y, cell, gridline) ==
  LET x0 == x * cell + (x + 1) * gridline
      y0 == y * cell + (y + 1) * gridline
  IN  (x0..(x0 + cell - 1)) \X (y0..(y0 + cell - 1))

\* C6: for an h-by-w grid, cell >= 1 and gridline >= 0, render_chart
\* returns an image of width w*cell + (w+1)*gridline and height
\* h*cell + (h+1)*gridline; cell (x, y) is painted with palette[grid[y][x]]
\* over exactly its block; blocks of distinct cells are disjoint and inside
\* the image; every pixel outside all blocks has the gridline colour; and
\* with gridline = 0 the blocks cover every pixel.
ChartGeometry ==
  (pc = "returned" /\ call.op = "render_chart") =>
    LET h == call.h
        w == call.w
        cell == call.cell
        gl == call.gridline
        palette == PALETTES[call.palette_key]
        W == w * cell + (w + 1) * gl
        H == h * cell + (h + 1) * gl
        Pixels == (0..(W - 1)) \X (0..(H - 1))
        Cells == (0..(w - 1)) \X (0..(h - 1))
        Blocks == UNION {Block(c[1], c[2], cell, gl) : c \in Cells}
    IN  /\ chart.size = <<W, H>>
        /\ \A c \in Cells :
             /\ Block(c[1], c[2], cell, gl) \subseteq Pixels
             /\ Cardinality(Block(c[1], c[2], cell, gl)) = cell * cell
             /\ \A p \in Block(c[1], c[2], cell, gl) :
                  PixelAt(chart, p[1], p[2])
                    = hex_to_rgb(palette[grid[c[2]][c[1]] + 1])
        /\ \A c \in Cells, d \in Cells :
             c # d => Block(c[1], c[2], cell, gl)
                        \cap Block(d[1], d[2], cell, gl) = {}
        /\ \A p \in Pixels \ Blocks : PixelAt(chart, p[1], p[2]) = GridlineColor
        /\ gl = 0 => Blocks = Pixels
        /\ gl > 0 => Blocks # Pixels

\* render_chart has returned a 7x7 image for a 2x2 grid with cell 2 and
\* gridline 1: pixel (0, 0) has the gridline colour, pixel (1, 1) the colour
\* of cell (0, 0), pixel (4, 4) the colour of cell (1, 1), pixel (3, 3) lies
\* between the blocks.
ChartGeometryWitness ==
  /\ pc = "returned" /\ call.op = "render_chart"
  /\ call.h = 2 /\ call.w = 2 /\ call.cell = 2 /\ call.gridline = 1
  /\ call.a = 1 /\ call.palette_key = "jewel_bazaar"
  /\ chart.size = <<7, 7>>
  /\ PixelAt(chart, 0, 0) = GridlineColor
  /\ PixelAt(chart, 3, 3) = GridlineColor
  /\ PixelAt(chart, 1, 1) = hex_to_rgb(PALETTES["jewel_bazaar"][2])
  /\ PixelAt(chart, 4, 4) = hex_to_rgb(PALETTES["jewel_bazaar"][6])
  /\ PixelAt(chart, 1, 1) # GridlineColor

\* C4: generate_bundle with a design key not in DESIGNS or a palette key
\* not in PALETTES never gets past its key checks: it computes no grid,
\* renders no image and returns no bundle, it uses no other design or
\* palette instead, and it ends in a KeyError.
UnknownKeyFails ==
  ( /\ call.op = "generate_bundle"
    /\ \/ call.design_key \notin DOMAIN DESIGNS
       \/ call.palette_key \notin DOMAIN PALETTES )
  => /\ pc \in {"check_design", "check_palette", "raised"}
     /\ pc = "raised" => exc = "KeyError"
     /\ grid = NoGrid
     /\ chart = NoImage /\ preview = NoImage
     /\ bundle = {}

\* generate_bundle has raised KeyError for a registered design with an
\* unregistered palette, having computed nothing.
UnknownKeyFailsWitness ==
  /\ call.op = "generate_bundle" /\ pc = "raised" /\ exc = "KeyError"
  /\ call.design_key = "rings_spokes"
  /\ call.palette_key = "not_a_palette"
  /\ grid = NoGrid /\ chart = NoImage /\ bundle = {}

\* C5 as stated: generate_bundle given cell <= 0 is rejected at its start:
\* no grid is computed, no image is produced and no bundle is returned.
\* The source has no such check: with registered keys the grid is computed
\* and the chart rendering is entered before anything can fail.
NonPositiveCellRejected ==
  (call.op = "generate_bundle" /\ call.cell <= 0) =>
    /\ grid = NoGrid
    /\ chart = NoImage /\ preview = NoImage
    /\ bundle = {}

\* The cell size an image without gridlines was rendered with, and whether
\* an image has no gridlines: the blocks start at the image's corner, abut
\* and fill the image.
RenderedCell(img) == img.rects[0, 0].box[3] - img.rects[0, 0].box[1] + 1
NoGridlines(img) ==
  LET c == RenderedCell(img)
  IN  /\ img.size = <<N * c, N * c>>
      /\ \A y \in 0..(N - 1), x \in 0..(N - 1) :
           img.rects[y, x].box = <<x * c, y * c, x * c + c - 1, y * c + c - 1>>

\* C10 as stated: for every positive chart cell size the preview in the
\* bundle has no gridlines and a cell size smaller than the chart's.
PreviewSmaller ==
  (call.op = "generate_bundle" /\ pc = "returned" /\ call.cell > 0) =>
    /\ NoGridlines(preview)
    /\ RenderedCell(preview) < RenderedCell(chart)

\* C10, amended: the preview in the bundle has no gridlines and the cell
\* size max(6, cell // 2); that is smaller than the chart's cell size for
\* every chart cell size of 7 or more, and is 6, not smaller than the
\* chart's, for the chart cell sizes 1..6.
PreviewSmallerFromSeven ==
  (call.op = "generate_bundle" /\ pc = "returned" /\ call.cell > 0) =>
    /\ NoGridlines(preview)
    /\ RenderedCell(chart) = call.cell
    /\ call.cell >= 7 => RenderedCell(preview) < RenderedCell(chart)
    /\ call.cell <= 6 => /\ RenderedCell(preview) = 6
                         /\ RenderedCell(preview) >= RenderedCell(chart)

\* generate_bundle has returned for the default cell size 22: the preview
\* was rendered with cell size 11 and has no gridlines, the chart has them.
PreviewSmallerFromSevenWitness ==
  /\ call.op = "generate_bundle" /\ pc = "returned"
  /\ call.cell = DefaultCell /\ call.gridline = 1
  /\ RenderedCell(preview) = 11 /\ RenderedCell(chart) = 22
  /\ preview.size = <<385, 385>> /\ chart.size = <<806, 806>>

\* C2 as stated: for every registered design, seed and requested colour
\* count K in 3..7 the request yields a grid whose every cell lies in
\* 0..K-1 and a palette slice of exactly K entries; a request for 3 colours
\* yields a grid with the indices 0, 1, 2 only and 3 colours.  The handler
\* that takes the colour count ends every request in AttributeError,
\* without a grid and without a palette slice.
PaletteBound ==
  ( /\ call.op = "api_generate"
    /\ call.design \in DOMAIN DESIGNS
    /\ call.palette \in DOMAIN PALETTES
    /\ call.requested \in 3..7
    /\ pc \in {"returned", "raised"} ) =>
    LET K == call.requested
    IN  /\ pc = "returned"
        /\ grid # NoGrid
        /\ \A y \in 0..(N - 1), x \in 0..(N - 1) : grid[y][x] \in 0..(K - 1)
        /\ Len(out.used_colors) = K

\* C11: in every run of generate_bundle with a registered design and a
\* registered palette, every value of the generated grid is in 0..6 and is
\* a valid index into the palette: every registered palette has 7 entries
\* and every design 6 thresholds, so the palette lookups of render_chart
\* and render_preview never raise an IndexError.
PaletteLookupInRange ==
  (call.op = "generate_bundle") =>
    /\ exc # "IndexError"
    /\ grid # NoGrid =>
         /\ \A pk \in DOMAIN PALETTES : Len(PALETTES[pk]) = 7
         /\ \A th \in {RingsSpokesThresholds, PetalVaultThresholds,
                       StarburstThresholds, MosaicStepsThresholds,
                       KnotworkThresholds, LatticeGardenThresholds} :
              Len(th) = 6
         /\ \A y \in 0..(N - 1), x \in 0..(N - 1) :
              /\ grid[y][x] \in 0..6
              /\ PaletteIndexOk(PALETTES[call.palette_key], grid[y][x])

\* generate_bundle has returned a bundle for rings_spokes: the centre cell
\* holds the top index 6 and both images painted it with the palette's
\* seventh colour.
PaletteLookupInRangeWitness ==
  /\ call.op = "generate_bundle" /\ pc = "returned"
  /\ call.design_key = "rings_spokes" /\ call.seed = 0
  /\ call.palette_key = "night_neon" /\ call.cell = 7
  /\ grid[17][17] = 6
  /\ chart.rects[17, 17].fill = hex_to_rgb(PALETTES["night_neon"][7])
  /\ preview.rects[17, 17].fill = <<255, 255, 255>>
  /\ bundle # {}

SeedFree == {"mosaic_steps", "knotwork", "lattice_garden"}

\* C12: the seed has no influence on mosaic_steps, knotwork and
\* lattice_garden: a call of one of these designs returns the grid an
\* earlier call of the same design returned, whatever the two seeds.
SeedIgnored ==
  ( /\ pc = "returned" /\ call.op = "design"
    /\ ref.call.op = "design"
    /\ call.design_key \in SeedFree
    /\ ref.call.design_key = call.design_key )
  => grid = ref.grid

\* knotwork has returned for seed 3 the grid remembered from its call with
\* seed 0, while rings_spokes, petal_vault and starburst each give
\* different grids for these two seeds.
SeedIgnoredWitness ==
  /\ pc = "returned" /\ call.op = "design"
  /\ call.design_key = "knotwork" /\ call.seed = 3
  /\ ref.call.op = "design"
  /\ ref.call.design_key = "knotwork" /\ ref.call.seed = 0
  /\ grid = ref.grid
  /\ \A k \in DesignKeys \ SeedFree : DESIGNS[k][0] # DESIGNS[k][3]
====
